---- MODULE Spec2Model ----
(***************************************************************************)
(* Offline-first key management store (ShadowBZS/Buro).                    *)
(*                                                                         *)
(* The local store is the IndexedDB database "KeyManagementDB" with the    *)
(* object stores rooms, employees, accessRights and pendingChanges         *)
(* (src/src/services/indexed-db-service.ts).  SyncService                  *)
(* (src/src/services/sync-service.ts) replays the pendingChanges store to  *)
(* ServerApiService (src/src/services/server-api-service.ts) and pulls the *)
(* remote snapshot back.  DataProvider                                     *)
(* (src/src/contexts/data-context.tsx) works on the same database.         *)
(*                                                                         *)
(* Every IndexedDBService method is an operator from a database value (a   *)
(* record of the four stores, their key generators and the clock) to a     *)
(* record [db, ret]: the database after the call and what the call         *)
(* returned.  The actions apply these operators to the state.              *)
(***************************************************************************)
EXTENDS Integers, Sequences, FiniteSets, TLC

\* ------------------------------------------------------------------ bounds
\* largest key an autoIncrement key generator hands out
MaxKey == 2
\* largest number of entries the pendingChanges store holds
MaxPending == 2
\* largest key the key generator of accessRights hands out
MaxAccessKey == 3
\* largest value Date.now() returns
MaxTime == 2
\* largest number of entries of the pendingChanges store where a whole dialog
\* save (a room, its grants and revokes) is followed
MaxOutbox == 3

\* Room.building is 1 | 2 (src/src/types/index.ts:4)
Buildings == {1, 2}
Numbers == {"101"}
Badges == {"EMP001", "EMP002"}
Keys == 1 .. MaxKey
\* who calls the SyncService: the sync button, the online transition of the
\* network status, and the trigger that follows a mutation
Callers == {"user", "online", "mutation"}

VARIABLES
    rooms,           \* object store rooms: records [id, number, building]
    employees,       \* object store employees: records [id, employeeId, accessRooms]
    accessRights,    \* object store accessRights: records [id, employeeId, roomId]
    roomKey,         \* key generator of rooms: the next key
    employeeKey,     \* key generator of employees
    accessKey,       \* key generator of accessRights
    pendingChanges,  \* object store pendingChanges, in key order (what getAll returns)
    callOrder,       \* ids of the entries of pendingChanges in the order they were added
    now,             \* the last value Date.now() returned
    quota,           \* the number of entries the pendingChanges store has room for
    inflight,        \* the store calls of the UI that are between two awaits
    pendingChangesCount, \* DataProvider state pendingChangesCount (the published count)
    lastCall,        \* the last call or step of a call; of a store call [op, e, r, ret, pre, again, counted]
    online,          \* navigator.onLine
    useMockData,     \* ServerApiService.useMockData
    isSyncing,       \* SyncService.isSyncing
    lastSyncTime,    \* SyncService.lastSyncTime
    pc,              \* per caller: "idle", or where its syncToServer, syncFromServer or fullSync call is
    queue            \* per caller: the sorted pending changes its drain still has to process

storeVars == <<rooms, employees, accessRights, roomKey, employeeKey, accessKey,
               pendingChanges, callOrder, now, quota, inflight, pendingChangesCount>>
syncVars == <<online, useMockData, isSyncing, lastSyncTime, pc, queue>>
vars == <<storeVars, lastCall, syncVars>>

\* ------------------------------------------------------------------ helpers
Max(a, b) == IF a >= b THEN a ELSE b
Min(a, b) == IF a <= b THEN a ELSE b
Range(s) == {s[i] : i \in DOMAIN s}
InsertAt(s, pos, x) == SubSeq(s, 1, pos - 1) \o <<x>> \o SubSeq(s, pos, Len(s))
Count(s, x) == Cardinality({i \in DOMAIN s : s[i] = x})
Ids(S) == {x.id : x \in S}

\* the data of a pending change: the fields processChange reads
Data(id, employeeId, roomId) == [id |-> id, employeeId |-> employeeId, roomId |-> roomId]

\* Date.now(), crypto.randomUUID() and the end of the add request are inputs of
\* a call: one record [dt, u, ok] per addPendingChange the call makes; dt is the
\* time since the previous clock reading, u the number of keys of the store
\* that sort after the fresh UUID, ok whether the add request succeeds
Oracle == [dt : 0 .. 1, u : 0 .. MaxPending, ok : {TRUE}]
\* no time passes, the fresh UUID sorts last, the add succeeds
Still == {[dt |-> 0, u |-> 0, ok |-> TRUE]}
\* the add request may end in an error (request.onerror: the quota of the
\* origin, an aborted transaction)
Faulty == [dt : {0}, u : {0}, ok : BOOLEAN]
NoEnv == [i \in 1 .. 6 |-> [dt |-> 0, u |-> 0, ok |-> TRUE]]

DBof(env) ==
    [rooms |-> rooms, employees |-> employees, accessRights |-> accessRights,
     roomKey |-> roomKey, employeeKey |-> employeeKey, accessKey |-> accessKey,
     pendingChanges |-> pendingChanges, callOrder |-> callOrder, now |-> now,
     held |-> UNION {{queue[c][i].id : i \in DOMAIN queue[c]} : c \in Callers},
     env |-> env, thrown |-> FALSE]

\* the oracles of a call: as many pairs as the call adds pending changes (probe
\* is the call under NoEnv), clock readings in order, ranks within the store
Envs(O, probe) ==
    LET n == Len(NoEnv) - Len(probe.db.env)
        valid == {o \in O : now + o.dt <= MaxTime /\ o.u <= Len(pendingChanges) + n - 1}
    IN  {env \in [1 .. n -> valid] :
            \A i \in 1 .. n :
                /\ env[i].u <= Len(pendingChanges) + i - 1
                /\ i > 1 => now + env[1].dt + env[i].dt <= MaxTime}

\* the call stays within the bounds of the model
Fits(db) ==
    /\ db.roomKey <= MaxKey + 1
    /\ db.employeeKey <= MaxKey + 1
    /\ db.accessKey <= MaxAccessKey + 1
    /\ Len(db.pendingChanges) <= quota

\* crypto.randomUUID(): an id that no entry of the store and no entry a drain
\* holds has
FreshId(db) ==
    LET free == (1 .. (2 * MaxOutbox + 2)) \
                    ({db.pendingChanges[i].id : i \in DOMAIN db.pendingChanges} \cup db.held)
    IN  CHOOSE i \in free : \A j \in free : i <= j

\* ------------------------------------------------------------------ IndexedDBService
addPendingChange(db, operation, entityType, data) ==
    LET o == Head(db.env)
        t == db.now + o.dt
        pos == Len(db.pendingChanges) + 1 - Min(o.u, Len(db.pendingChanges))
        pendingChange == [id |-> FreshId(db), timestamp |-> t, operation |-> operation,
                          entityType |-> entityType, data |-> data]
    IN  IF o.ok
        THEN [db EXCEPT !.pendingChanges = InsertAt(@, pos, pendingChange),
                        !.callOrder = Append(@, pendingChange.id),
                        !.now = t,
                        !.env = Tail(@)]
        ELSE [db EXCEPT !.now = t, !.env = Tail(@), !.thrown = TRUE]

\* what a method returns after its addPendingChange: good, or bad when the
\* add threw (rethrown or caught by the method)
Returned(db, good, bad) ==
    [db |-> [db EXCEPT !.thrown = FALSE], ret |-> IF db.thrown THEN bad ELSE good]

getRoomById(db, roomId) == {x \in db.rooms : x.id = roomId}

getEmployeeById(db, employeeId) == {x \in db.employees : x.id = employeeId}

\* an argument that was not passed (undefined)
Undefined == 0 - 1
\* the conditions of getAccessRights take an id for passed when it is truthy:
\* undefined and 0 are both falsy
Truthy(id) == id # Undefined /\ id # 0

\* the calls of the store that pass no id write 0 for it
getAccessRights(db, roomId, employeeId) ==
    IF Truthy(roomId) /\ Truthy(employeeId)
    THEN {a \in db.accessRights : a.employeeId = employeeId /\ a.roomId = roomId}
    ELSE IF Truthy(roomId)
    THEN {a \in db.accessRights : a.roomId = roomId}
    ELSE IF Truthy(employeeId)
    THEN {a \in db.accessRights : a.employeeId = employeeId}
    ELSE db.accessRights

\* IDBObjectStore.add on rooms: a record without id (id = 0) takes the next
\* generated key; a record with id fails (ConstraintError) when the key exists
addRoom(db, room) ==
    LET id == IF room.id = 0 THEN db.roomKey ELSE room.id
    IN  IF id \in Ids(db.rooms)
        THEN [ok |-> FALSE, id |-> id, db |-> db]
        ELSE [ok |-> TRUE, id |-> id,
              db |-> [db EXCEPT !.rooms = @ \cup {[room EXCEPT !.id = id]},
                                !.roomKey = Max(@, id + 1)]]

\* IDBObjectStore.add on employees with an employeeId index that is not unique
addEmployeeNoIndex(db, employee) ==
    LET id == IF employee.id = 0 THEN db.employeeKey ELSE employee.id
    IN  IF id \in Ids(db.employees)
        THEN [ok |-> FALSE, id |-> id, db |-> db]
        ELSE [ok |-> TRUE, id |-> id,
              db |-> [db EXCEPT !.employees = @ \cup {[employee EXCEPT !.id = id]},
                                !.employeeKey = Max(@, id + 1)]]

\* IDBObjectStore.add on employees: the index employeeId is unique
addEmployee(db, employee) ==
    LET id == IF employee.id = 0 THEN db.employeeKey ELSE employee.id
    IN  IF \/ id \in Ids(db.employees)
           \/ \E x \in db.employees : x.employeeId = employee.employeeId
        THEN [ok |-> FALSE, id |-> id, db |-> db]
        ELSE [ok |-> TRUE, id |-> id,
              db |-> [db EXCEPT !.employees = @ \cup {[employee EXCEPT !.id = id]},
                                !.employeeKey = Max(@, id + 1)]]

\* IDBObjectStore.add on accessRights: the index unique_access is unique
addAccessRight(db, access) ==
    LET id == IF access.id = 0 THEN db.accessKey ELSE access.id
    IN  IF \/ id \in Ids(db.accessRights)
           \/ \E a \in db.accessRights :
                 a.employeeId = access.employeeId /\ a.roomId = access.roomId
        THEN [ok |-> FALSE, id |-> id, db |-> db]
        ELSE [ok |-> TRUE, id |-> id,
              db |-> [db EXCEPT !.accessRights = @ \cup {[access EXCEPT !.id = id]},
                                !.accessKey = Max(@, id + 1)]]

createRoom(db, room) ==
    LET newRoom == addRoom(db, [id |-> 0, number |-> room.number, building |-> room.building])
    IN  IF ~newRoom.ok
        THEN [db |-> db, ret |-> "throw", id |-> 0]
        ELSE LET out == Returned(addPendingChange(newRoom.db, "create", "room",
                                                  Data(newRoom.id, 0, 0)), "room", "throw")
             IN  [db |-> out.db, ret |-> out.ret,
                  id |-> IF out.ret = "room" THEN newRoom.id ELSE 0]

\* store.put: insert or replace by key; rooms has no unique index
updateRoom(db, room) ==
    LET db1 == [db EXCEPT !.rooms = {x \in @ : x.id # room.id} \cup {room},
                          !.roomKey = Max(@, room.id + 1)]
    IN  Returned(addPendingChange(db1, "update", "room", Data(room.id, 0, 0)),
                 "true", "false")

\* store.delete of an absent key succeeds; the employees store is not touched
deleteRoom(db, roomId) ==
    LET db1 == [db EXCEPT !.rooms = {x \in @ : x.id # roomId}]
        gone == Ids(getAccessRights(db1, roomId, 0))
        db2 == [db1 EXCEPT !.accessRights = {a \in @ : a.id \notin gone}]
    IN  Returned(addPendingChange(db2, "delete", "room", Data(roomId, 0, 0)),
                 "true", "false")

createEmployee(db, employee) ==
    LET newEmployee == addEmployee(db, [id |-> 0, employeeId |-> employee.employeeId,
                                        accessRooms |-> employee.accessRooms])
    IN  IF ~newEmployee.ok
        THEN [db |-> db, ret |-> "throw", id |-> 0]
        ELSE LET out == Returned(addPendingChange(newEmployee.db, "create", "employee",
                                                  Data(newEmployee.id, 0, 0)),
                                 "employee", "throw")
             IN  [db |-> out.db, ret |-> out.ret,
                  id |-> IF out.ret = "employee" THEN newEmployee.id ELSE 0]

\* store.put: fails (caught, returns false) when another employee has the employeeId
updateEmployee(db, employee) ==
    IF \E x \in db.employees : x.id # employee.id /\ x.employeeId = employee.employeeId
    THEN [db |-> db, ret |-> "false"]
    ELSE LET db1 == [db EXCEPT !.employees = {x \in @ : x.id # employee.id} \cup {employee},
                               !.employeeKey = Max(@, employee.id + 1)]
         IN  Returned(addPendingChange(db1, "update", "employee", Data(employee.id, 0, 0)),
                      "true", "false")

\* deleteEmployee without the cascade to the accessRights store
deleteEmployeeOnly(db, employeeId) ==
    LET db1 == [db EXCEPT !.employees = {x \in @ : x.id # employeeId}]
    IN  Returned(addPendingChange(db1, "delete", "employee", Data(employeeId, 0, 0)),
                 "true", "false")

deleteEmployee(db, employeeId) ==
    LET db1 == [db EXCEPT !.employees = {x \in @ : x.id # employeeId}]
        gone == Ids(getAccessRights(db1, 0, employeeId))
        db2 == [db1 EXCEPT !.accessRights = {a \in @ : a.id \notin gone}]
    IN  Returned(addPendingChange(db2, "delete", "employee", Data(employeeId, 0, 0)),
                 "true", "false")

\* grantAccess without the pending change of the grant
grantAccessUnrecorded(db, employeeId, roomId) ==
    LET existingAccess == getAccessRights(db, roomId, employeeId)
        added == addAccessRight(db, [id |-> 0, employeeId |-> employeeId, roomId |-> roomId])
        employee == getEmployeeById(added.db, employeeId)
        db2 == IF \E x \in employee : roomId \notin Range(x.accessRooms)
               THEN LET x == CHOOSE x \in employee : TRUE
                    IN  updateEmployee(added.db,
                                       [x EXCEPT !.accessRooms = Append(@, roomId)]).db
               ELSE added.db
    IN  IF existingAccess # {}
        THEN [db |-> db, ret |-> "true"]
        ELSE IF ~added.ok
        THEN [db |-> db, ret |-> "false"]
        ELSE [db |-> db2, ret |-> "true"]

grantAccess(db, employeeId, roomId) ==
    LET existingAccess == getAccessRights(db, roomId, employeeId)
        added == addAccessRight(db, [id |-> 0, employeeId |-> employeeId, roomId |-> roomId])
        employee == getEmployeeById(added.db, employeeId)
        db2 == IF \E x \in employee : roomId \notin Range(x.accessRooms)
               THEN LET x == CHOOSE x \in employee : TRUE
                    IN  updateEmployee(added.db,
                                       [x EXCEPT !.accessRooms = Append(@, roomId)]).db
               ELSE added.db
    IN  IF existingAccess # {}
        THEN [db |-> db, ret |-> "true"]
        ELSE IF ~added.ok
        THEN [db |-> db, ret |-> "false"]
        ELSE Returned(addPendingChange(db2, "grant", "access",
                                       Data(added.id, employeeId, roomId)),
                      "true", "false")

\* revokeAccess without the early return for a pair that has no row
revokeAccessUnguarded(db, employeeId, roomId) ==
    LET db1 == db
        employee == getEmployeeById(db1, employeeId)
        db2 == IF employee # {}
               THEN LET x == CHOOSE x \in employee : TRUE
                    IN  updateEmployee(db1,
                            [x EXCEPT !.accessRooms =
                                 SelectSeq(@, LAMBDA id : id # roomId)]).db
               ELSE db1
    IN  Returned(addPendingChange(db2, "revoke", "access", Data(0, employeeId, roomId)),
                 "true", "false")

revokeAccess(db, employeeId, roomId) ==
    LET found == getAccessRights(db, roomId, employeeId)
        db1 == [db EXCEPT !.accessRights = {a \in @ : a.id \notin Ids(found)}]
        employee == getEmployeeById(db1, employeeId)
        db2 == IF employee # {}
               THEN LET x == CHOOSE x \in employee : TRUE
                    IN  updateEmployee(db1,
                            [x EXCEPT !.accessRooms =
                                 SelectSeq(@, LAMBDA id : id # roomId)]).db
               ELSE db1
    IN  IF found = {}
        THEN [db |-> db, ret |-> "true"]
        ELSE Returned(addPendingChange(db2, "revoke", "access",
                                       Data(0, employeeId, roomId)),
                      "true", "false")

\* DataProvider.revokeAccess: the employee is written with db.put, without a
\* pending change of its own
providerRevokeAccess(db, employeeId, roomId) ==
    LET found == getAccessRights(db, roomId, employeeId)
        db1 == [db EXCEPT !.accessRights = {a \in @ : a.id \notin Ids(found)}]
        db2 == [db1 EXCEPT !.employees =
                   {[x EXCEPT !.accessRooms =
                         IF x.id = employeeId THEN SelectSeq(@, LAMBDA id : id # roomId) ELSE @] :
                    x \in @}]
    IN  IF found = {}
        THEN [db |-> db, ret |-> "true"]
        ELSE Returned(addPendingChange(db2, "revoke", "access",
                                       Data(0, employeeId, roomId)),
                      "true", "false")

\* the ids of a set of records in key order (what getAll returns)
InKeyOrder(S) == SelectSeq([i \in 1 .. MaxKey + 1 |-> i], LAMBDA i : i \in Ids(S))

\* desired.filter(id => !current.includes(id)) and current.filter(id =>
\* !desired.includes(id)): the grants and the revokes of a reconciliation
toAdd(desired, current) == SelectSeq(desired, LAMBDA id : id \notin Range(current))
toRemove(desired, current) == SelectSeq(current, LAMBDA id : id \notin Range(desired))

RECURSIVE grantAll(_, _, _)
grantAll(db, employeeIds, roomId) ==
    IF employeeIds = <<>> THEN db
    ELSE grantAll(grantAccess(db, Head(employeeIds), roomId).db, Tail(employeeIds), roomId)

RECURSIVE revokeAll(_, _, _)
revokeAll(db, employeeIds, roomId) ==
    IF employeeIds = <<>> THEN db
    ELSE revokeAll(providerRevokeAccess(db, Head(employeeIds), roomId).db,
                   Tail(employeeIds), roomId)

\* RoomManagement.handleSaveRoom for a room that is edited: updateRoom, the
\* employees whose accessRooms hold the room, then the grants, then the revokes
handleSaveRoom(db, room, employeesWithAccess) ==
    LET db1 == updateRoom(db, room).db
        currentEmployeesWithAccess ==
            InKeyOrder({x \in db1.employees : room.id \in Range(x.accessRooms)})
        grants == toAdd(employeesWithAccess, currentEmployeesWithAccess)
        revokes == toRemove(employeesWithAccess, currentEmployeesWithAccess)
        db2 == grantAll(db1, grants, room.id)
        db3 == revokeAll(db2, revokes, room.id)
    IN  [db |-> db3, ret |-> "none", grants |-> grants, revokes |-> revokes]

\* the records of a batch are added in one transaction, which aborts on the
\* first add that fails; count: the adds that succeeded (request.onsuccess).
\* The promise of a bulk import is resolved with the count in the then of
\* addPendingChange, so it stays pending when that add throws
RECURSIVE addAll(_, _, _)
addAll(db, records, store) ==
    IF records = <<>>
    THEN [ok |-> TRUE, db |-> db, count |-> 0]
    ELSE LET added == CASE store = "rooms" -> addRoom(db, Head(records))
                        [] store = "employees" -> addEmployee(db, Head(records))
                        [] store = "accessRights" -> addAccessRight(db, Head(records))
             rest == addAll(added.db, Tail(records), store)
         IN  IF added.ok /\ rest.ok
             THEN [rest EXCEPT !.count = @ + 1]
             ELSE [ok |-> FALSE, db |-> db, count |-> 0]

\* bulkImportRooms without the pending change of the batch
bulkImportRoomsUnrecorded(db, records) ==
    LET all == addAll(db, records, "rooms")
    IN  IF ~all.ok
        THEN [db |-> db, ret |-> "throw", count |-> 0]
        ELSE [db |-> all.db, ret |-> "count", count |-> all.count]

bulkImportRooms(db, records) ==
    LET all == addAll(db, records, "rooms")
        out == Returned(addPendingChange(all.db, "bulk", "room", Data(Len(records), 0, 0)),
                        "count", "pending")
    IN  IF ~all.ok
        THEN [db |-> db, ret |-> "throw", count |-> 0]
        ELSE [db |-> out.db, ret |-> out.ret, count |-> all.count]

bulkImportEmployees(db, records) ==
    LET all == addAll(db, records, "employees")
        out == Returned(addPendingChange(all.db, "bulk", "employee", Data(Len(records), 0, 0)),
                        "count", "pending")
    IN  IF ~all.ok
        THEN [db |-> db, ret |-> "throw", count |-> 0]
        ELSE [db |-> out.db, ret |-> out.ret, count |-> all.count]

bulkImportAccessRights(db, records) ==
    LET all == addAll(db, records, "accessRights")
        out == Returned(addPendingChange(all.db, "bulk", "access", Data(Len(records), 0, 0)),
                        "count", "pending")
    IN  IF ~all.ok
        THEN [db |-> db, ret |-> "throw", count |-> 0]
        ELSE [db |-> out.db, ret |-> out.ret, count |-> all.count]

\* store.getAll(): the entries in key order
getPendingChanges(db) == db.pendingChanges

\* a delete that fails for a key that is not in the store
deletePendingChangeStrict(db, id) ==
    IF \E i \in DOMAIN db.pendingChanges : db.pendingChanges[i].id = id
    THEN [db |-> [db EXCEPT !.pendingChanges = SelectSeq(@, LAMBDA x : x.id # id),
                            !.callOrder = SelectSeq(@, LAMBDA i : i # id)],
          ret |-> "true"]
    ELSE [db |-> db, ret |-> "false"]

\* store.delete: of an absent key too
deletePendingChange(db, id) ==
    [db |-> [db EXCEPT !.pendingChanges = SelectSeq(@, LAMBDA x : x.id # id),
                       !.callOrder = SelectSeq(@, LAMBDA i : i # id)],
     ret |-> "true"]

\* DataProvider.syncData: db.clear of the pendingChanges store, no gateway
\* call; count: what it publishes, setPendingChangesCount(0)
providerSyncData(db) ==
    [db |-> [db EXCEPT !.pendingChanges = <<>>, !.callOrder = <<>>], ret |-> "none",
     count |-> 0]

\* ------------------------------------------------------------------ ServerApiService
Failures == {"unreachable", "timeout", "rejected"}

\* how an apiRequest can end: a mock response without request, an error
\* before the request when offline, else the response or a failure
apiRequest ==
    IF useMockData THEN {"mock"}
    ELSE IF ~online THEN {"unreachable"}
    ELSE {"ok"} \cup Failures

\* a gateway that sends a failed request a second time
RequestsRetried(outcome, isOnline) ==
    IF outcome = "mock" \/ ~isOnline THEN 0
    ELSE IF outcome \in Failures THEN 2
    ELSE 1

\* the fetch calls of one apiRequest: none for a mock response and none when
\* the network test throws, else the one fetch (no loop, no second attempt)
Requests(outcome, isOnline) ==
    IF outcome = "mock" \/ ~isOnline THEN 0 ELSE 1

\* what a gateway method makes of the end of its request: createRoom,
\* createEmployee and the get methods let the error through, the other
\* methods catch it and return false (0 for the bulk imports)
ServerApi(method, outcome) ==
    IF outcome \notin Failures THEN "done"
    ELSE IF method \in {"createRoom", "createEmployee", "getRooms", "getEmployees",
                        "getAccessRights"}
    THEN "throw"
    ELSE "false"

\* the object stores of the entities (STORES without pendingChanges)
EntityStores == {"rooms", "employees", "accessRights"}

\* what the server holds
RemoteRooms == <<[id |-> 2, number |-> "101", building |-> 2]>>
RemoteEmployees == <<[id |-> 2, employeeId |-> "EMP002", accessRooms |-> <<1>>]>>
RemoteAccessRights == <<[id |-> 2, employeeId |-> 2, roomId |-> 1]>>

\* what a get method returns: the list of the server, maybe empty
Fetch(method, list, outcome, empty) ==
    IF ServerApi(method, outcome) = "throw" THEN <<>>
    ELSE IF empty /\ outcome = "ok" THEN <<>>
    ELSE list

\* ------------------------------------------------------------------ SyncService
\* pendingChanges.sort((a, b) => a.timestamp - b.timestamp): a stable sort
RECURSIVE SortByTimestamp(_)
SortByTimestamp(s) ==
    IF s = <<>>
    THEN <<>>
    ELSE LET rest == SortByTimestamp(SubSeq(s, 1, Len(s) - 1))
             x == s[Len(s)]
             k == Cardinality({i \in DOMAIN rest : rest[i].timestamp <= x.timestamp})
         IN  InsertAt(rest, k + 1, x)

\* a guard that looks at the network only
SkipsOffline(isOnline, syncing) == ~isOnline

\* a guard that looks at the syncing flag only
SkipsBusy(isOnline, syncing) == syncing

\* the guard of syncToServer and syncFromServer
Skips(isOnline, syncing) == ~isOnline \/ syncing

\* processChange with a switch that treats every create that is not a room as
\* an employee
MethodLoose(change) ==
    LET operation == change.operation
        entityType == change.entityType
    IN  CASE operation = "create" /\ entityType = "room" -> "createRoom"
          [] operation = "create" /\ entityType # "room" -> "createEmployee"
          [] operation = "update" /\ entityType = "room" -> "updateRoom"
          [] operation = "update" /\ entityType = "employee" -> "updateEmployee"
          [] operation = "delete" /\ entityType = "room" -> "deleteRoom"
          [] operation = "delete" /\ entityType = "employee" -> "deleteEmployee"
          [] operation = "grant" /\ entityType = "access" -> "grantAccess"
          [] operation = "revoke" /\ entityType = "access" -> "revokeAccess"
          [] operation = "bulk" /\ entityType = "room" -> "bulkImportRooms"
          [] operation = "bulk" /\ entityType = "employee" -> "bulkImportEmployees"
          [] operation = "bulk" /\ entityType = "access" -> "bulkImportAccessRights"
          [] OTHER -> "none"

\* the gateway method processChange calls for a change, "none" when no case matches
Method(change) ==
    LET operation == change.operation
        entityType == change.entityType
    IN  CASE operation = "create" /\ entityType = "room" -> "createRoom"
          [] operation = "create" /\ entityType = "employee" -> "createEmployee"
          [] operation = "update" /\ entityType = "room" -> "updateRoom"
          [] operation = "update" /\ entityType = "employee" -> "updateEmployee"
          [] operation = "delete" /\ entityType = "room" -> "deleteRoom"
          [] operation = "delete" /\ entityType = "employee" -> "deleteEmployee"
          [] operation = "grant" /\ entityType = "access" -> "grantAccess"
          [] operation = "revoke" /\ entityType = "access" -> "revokeAccess"
          [] operation = "bulk" /\ entityType = "room" -> "bulkImportRooms"
          [] operation = "bulk" /\ entityType = "employee" -> "bulkImportEmployees"
          [] operation = "bulk" /\ entityType = "access" -> "bulkImportAccessRights"
          [] OTHER -> "none"

\* processChange throws what the gateway method throws
processChange(change, outcome) ==
    IF Method(change) # "none" /\ ServerApi(Method(change), outcome) = "throw"
    THEN "throw"
    ELSE "returned"

\* the imports of syncFromServer: each list that is not empty, an import
\* that throws is caught; an import whose promise stays pending ("pending")
\* is awaited for ever: nothing after it runs and the call does not return
syncFromServer(db, fetchedRooms, fetchedEmployees, fetchedAccessRights) ==
    LET out1 == IF fetchedRooms # <<>> THEN bulkImportRooms(db, fetchedRooms)
                ELSE [db |-> db, ret |-> "none"]
        out2 == IF fetchedEmployees # <<>> /\ out1.ret # "pending"
                THEN bulkImportEmployees(out1.db, fetchedEmployees)
                ELSE [db |-> out1.db, ret |-> "none"]
        out3 == IF fetchedAccessRights # <<>> /\ "pending" \notin {out1.ret, out2.ret}
                THEN bulkImportAccessRights(out2.db, fetchedAccessRights)
                ELSE [db |-> out2.db, ret |-> "none"]
        returns == "pending" \notin {out1.ret, out2.ret, out3.ret}
    IN  [db |-> out3.db, ret |-> IF returns THEN "true" ELSE "pending",
         synced |-> /\ returns
                    /\ (fetchedRooms # <<>> \/ fetchedEmployees # <<>>
                            \/ fetchedAccessRights # <<>>),
         imported |-> {store \in EntityStores :
                          \/ store = "rooms" /\ out1.ret = "count"
                          \/ store = "employees" /\ out2.ret = "count"
                          \/ store = "accessRights" /\ out3.ret = "count"}]

\* ------------------------------------------------------------------ store calls
\* accessRooms arrays a caller passes: duplicate-free lists of room ids
RoomLists ==
    {s \in UNION {[1 .. n -> Keys] : n \in 0 .. 2} : \A i, j \in DOMAIN s : s[i] = s[j] => i = j}

\* the employees with access to a room: the rows of the accessRights store
RowsFor(r) == {a \in accessRights : a.roomId = r}

\* the UI actions that can be in flight at the same time
Tasks == {"first", "second"}
Idle == [at |-> "idle"]

\* no store call is between two awaits; base and calls describe the calls
\* that overlapped last: the employees and accessRights when the first of
\* them started, and the calls in the order they started
NoneInFlight ==
    [tasks |-> [t \in Tasks |-> Idle],
     base |-> [employees |-> {}, accessRights |-> {}],
     calls |-> <<>>]

\* op(e, r) returned ret; pre: what the call is about was in the store before
\* it; again: the call before it was the same call; counted: the call reported
\* success and is one that changes the store
NoCall == [op |-> "none"]

StoreCalls == {"createRoom", "updateRoom", "deleteRoom", "createEmployee", "updateEmployee",
               "deleteEmployee", "grantAccess", "revokeAccess", "DataProvider.revokeAccess"}

Succeeded(ret) == ret \in {"true", "room", "employee", "count"}

HasAccess(e, r) == \E a \in accessRights : a.employeeId = e /\ a.roomId = r

\* the state after a call: what the call left in the database, and its record
Commit(out, op, e, r, pre, mutating) ==
    /\ Fits(out.db)
    /\ rooms' = out.db.rooms
    /\ employees' = out.db.employees
    /\ accessRights' = out.db.accessRights
    /\ roomKey' = out.db.roomKey
    /\ employeeKey' = out.db.employeeKey
    /\ accessKey' = out.db.accessKey
    /\ pendingChanges' = out.db.pendingChanges
    /\ callOrder' = out.db.callOrder
    /\ now' = out.db.now
    /\ quota' = quota
    /\ inflight' = inflight
    /\ pendingChangesCount' = pendingChangesCount
    /\ lastCall' = [op |-> op, e |-> e, r |-> r, ret |-> out.ret, pre |-> pre,
                    again |-> lastCall.op = op /\ lastCall.e = e /\ lastCall.r = r,
                    counted |-> mutating /\ Succeeded(out.ret)]
    /\ UNCHANGED syncVars

CreateRoom(O) ==
    \E number \in Numbers, building \in Buildings :
      \E env \in Envs(O, createRoom(DBof(NoEnv), [number |-> number, building |-> building])) :
        \E out \in {createRoom(DBof(env), [number |-> number, building |-> building])} :
            Commit(out, "createRoom", 0, out.id,
                   \E x \in rooms : x.number = number /\ x.building = building, TRUE)

UpdateRoom(O) ==
    \E id \in Keys, number \in Numbers, building \in Buildings :
      \E env \in Envs(O, updateRoom(DBof(NoEnv), [id |-> id, number |-> number, building |-> building])) :
        \E out \in {updateRoom(DBof(env), [id |-> id, number |-> number, building |-> building])} :
            Commit(out, "updateRoom", 0, id, id \in Ids(rooms), TRUE)

DeleteRoom(O) ==
    \E id \in Keys :
      \E env \in Envs(O, deleteRoom(DBof(NoEnv), id)) :
        \E out \in {deleteRoom(DBof(env), id)} :
            Commit(out, "deleteRoom", 0, id, id \in Ids(rooms), TRUE)

CreateEmployee(O, lists) ==
    \E badge \in Badges, accessRooms \in lists :
      \E env \in Envs(O, createEmployee(DBof(NoEnv), [employeeId |-> badge, accessRooms |-> accessRooms])) :
        \E out \in {createEmployee(DBof(env), [employeeId |-> badge, accessRooms |-> accessRooms])} :
            Commit(out, "createEmployee", out.id, 0,
                   \E x \in employees : x.employeeId = badge, TRUE)

UpdateEmployee(O) ==
    \E id \in Keys, badge \in Badges, accessRooms \in RoomLists :
      \E env \in Envs(O, updateEmployee(DBof(NoEnv), [id |-> id, employeeId |-> badge, accessRooms |-> accessRooms])) :
        \E out \in {updateEmployee(DBof(env), [id |-> id, employeeId |-> badge,
                                              accessRooms |-> accessRooms])} :
            Commit(out, "updateEmployee", id, 0, id \in Ids(employees), TRUE)

DeleteEmployee(O) ==
    \E id \in Keys :
      \E env \in Envs(O, deleteEmployee(DBof(NoEnv), id)) :
        \E out \in {deleteEmployee(DBof(env), id)} :
            Commit(out, "deleteEmployee", id, 0, id \in Ids(employees), TRUE)

GrantAccess(O) ==
    \E e \in Keys, r \in Keys :
      \E env \in Envs(O, grantAccess(DBof(NoEnv), e, r)) :
        \E out \in {grantAccess(DBof(env), e, r)} :
            Commit(out, "grantAccess", e, r, HasAccess(e, r),
                   ~HasAccess(e, r))

RevokeAccess(O) ==
    \E e \in Keys, r \in Keys :
      \E env \in Envs(O, revokeAccess(DBof(NoEnv), e, r)) :
        \E out \in {revokeAccess(DBof(env), e, r)} :
            Commit(out, "revokeAccess", e, r, HasAccess(e, r),
                   HasAccess(e, r))

ProviderRevokeAccess(O) ==
    \E e \in Keys, r \in Keys :
      \E env \in Envs(O, providerRevokeAccess(DBof(NoEnv), e, r)) :
        \E out \in {providerRevokeAccess(DBof(env), e, r)} :
            Commit(out, "DataProvider.revokeAccess", e, r, HasAccess(e, r),
                   HasAccess(e, r))

\* ------------------------------------------------------------------ sync calls
\* where a fullSync call is after its syncToServer returned, by what that call
\* did: skipped (returned false), found the outbox empty, or drained it
FromStage == [skipped |-> "from-skipped", empty |-> "from-empty", drained |-> "from-drained"]
PullStage == [skipped |-> "pull-skipped", empty |-> "pull-empty", drained |-> "pull-drained"]
ToResults == {"skipped", "empty", "drained"}
ToOf(stage) == CHOOSE to \in ToResults : stage \in {FromStage[to], PullStage[to]}

\* the positions in which the caller's cycle holds the syncing flag
Active == {"drain", "pull", "fullDrain"} \cup {PullStage[to] : to \in ToResults}

Busy == \E d \in Callers : pc[d] \in Active

\* what a call or a step of a call left in the database
Stored(db) ==
    /\ Fits(db)
    /\ rooms' = db.rooms
    /\ employees' = db.employees
    /\ accessRights' = db.accessRights
    /\ roomKey' = db.roomKey
    /\ employeeKey' = db.employeeKey
    /\ accessKey' = db.accessKey
    /\ pendingChanges' = db.pendingChanges
    /\ callOrder' = db.callOrder
    /\ now' = db.now
    /\ quota' = quota

\* a call or a step that does not publish a count
Written(db) ==
    /\ Stored(db)
    /\ pendingChangesCount' = pendingChangesCount

StoreOf(db) ==
    /\ Written(db)
    /\ inflight' = inflight

\* the employees a dialog has ticked: a duplicate-free list of employee ids
EmployeeLists ==
    {s \in UNION {[1 .. n -> Ids(employees)] : n \in 0 .. 2} :
        \A i, j \in DOMAIN s : s[i] = s[j] => i = j}

\* the room dialog saves an edited room; its record: desired, the ids that
\* were ticked; before, the ids that had a row for the room; grants and
\* revokes, the calls it made in their order
HandleSaveRoom(O) ==
    \E selectedRoom \in rooms, number \in Numbers, employeesWithAccess \in EmployeeLists :
      LET newRoom == [selectedRoom EXCEPT !.number = number]
      IN  \E env \in Envs(O, handleSaveRoom(DBof(NoEnv), newRoom, employeesWithAccess)) :
            \E out \in {handleSaveRoom(DBof(env), newRoom, employeesWithAccess)} :
                /\ StoreOf(out.db)
                /\ lastCall' = [op |-> "handleSaveRoom", r |-> selectedRoom.id,
                                desired |-> Range(employeesWithAccess),
                                before |-> {a.employeeId : a \in RowsFor(selectedRoom.id)},
                                grants |-> out.grants, revokes |-> out.revokes]
                /\ UNCHANGED syncVars

\* syncToServer up to its first dispatch: the guard, the flag, getPendingChanges, the sort
SyncToServer(c) ==
    /\ pc[c] = "idle"
    /\ LET sorted == SortByTimestamp(getPendingChanges(DBof(NoEnv)))
       IN  IF Skips(online, isSyncing)
           THEN /\ lastCall' = [op |-> "syncToServer", busy |-> Busy, ret |-> "false"]
                /\ UNCHANGED <<isSyncing, pc, queue>>
           ELSE IF sorted = <<>>
           THEN /\ lastCall' = [op |-> "syncToServer", busy |-> Busy, ret |-> "true"]
                /\ UNCHANGED <<isSyncing, pc, queue>>
           ELSE /\ lastCall' = [op |-> "syncToServer", busy |-> Busy,
                                ret |-> "started"]
                /\ isSyncing' = TRUE
                /\ pc' = [pc EXCEPT ![c] = "drain"]
                /\ queue' = [queue EXCEPT ![c] = sorted]
    /\ UNCHANGED <<storeVars, online, useMockData, lastSyncTime>>

\* one turn of the loop of syncToServer: processChange, then deletePendingChange
\* unless processChange threw; after the last turn lastSyncTime and the flag.
\* Its record: ret, what syncToServer returns after the last turn; whole, no
\* other step was taken since the cycle started; allOk, every gateway call of
\* the cycle was answered; sent, the gateway calls of a whole cycle so far
\* a time of the last sync that only a turn that replayed its entry moves
lastSyncTimeAfterSuccess(last, result) ==
    IF last /\ result # "throw" THEN now ELSE lastSyncTime

\* lastSyncTime after a turn of the loop of syncToServer: Date.now() once the
\* loop is over, whatever processChange did with the entries
lastSyncTimeAfter(last, result) == IF last THEN now ELSE lastSyncTime

Dispatch(c) ==
    /\ pc[c] \in {"drain", "fullDrain"}
    /\ \E outcome \in apiRequest :
         LET change == Head(queue[c])
             result == processChange(change, outcome)
             db == IF result = "throw" THEN DBof(NoEnv)
                   ELSE deletePendingChange(DBof(NoEnv), change.id).db
             last == Len(queue[c]) = 1
             first == lastCall.op = "syncToServer" /\ lastCall.ret = "started"
             whole == first \/ (lastCall.op = "processChange" /\ lastCall.whole
                                  /\ lastCall.ret = "none")
         IN  /\ StoreOf(db)
             /\ queue' = [queue EXCEPT ![c] = Tail(@)]
             /\ pc' = [pc EXCEPT ![c] = IF ~last THEN @
                                        ELSE IF @ = "drain" THEN "idle"
                                        ELSE FromStage["drained"]]
             /\ isSyncing' = IF last THEN FALSE ELSE isSyncing
             /\ lastSyncTime' = lastSyncTimeAfter(last, result)
             /\ lastCall' = [op |-> "processChange", method |-> Method(change),
                             outcome |-> outcome, discarded |-> result # "throw",
                             ret |-> IF last THEN "true" ELSE "none",
                             whole |-> whole,
                             allOk |-> whole /\ outcome = "ok" /\ (first \/ lastCall.allOk),
                             sent |-> IF ~whole THEN <<>>
                                      ELSE (IF first THEN <<>> ELSE lastCall.sent)
                                               \o <<[method |-> Method(change),
                                                     data |-> change.data]>>]
    /\ UNCHANGED <<online, useMockData>>

\* syncFromServer up to its first fetch: the guard and the flag
SyncFromServer(c) ==
    /\ pc[c] = "idle"
    /\ IF Skips(online, isSyncing)
       THEN /\ lastCall' = [op |-> "syncFromServer", busy |-> Busy, ret |-> "false"]
            /\ UNCHANGED <<isSyncing, pc>>
       ELSE /\ lastCall' = [op |-> "syncFromServer", busy |-> Busy,
                            ret |-> "started"]
            /\ isSyncing' = TRUE
            /\ pc' = [pc EXCEPT ![c] = "pull"]
    /\ UNCHANGED <<storeVars, online, useMockData, lastSyncTime, queue>>

\* the rest of syncFromServer: the three fetches, the imports, lastSyncTime,
\* the flag; to: what the syncToServer of the fullSync that made the call did,
\* "none" for a call of its own (a fullSync returns true after its pull).
\* When an import stays pending the call never returns: its caller is "hung"
\* and the flag stays set.  answers: how the requests may end; empties:
\* whether the server holds no records
PullAnswered(c, O, answers, empties) ==
    /\ pc[c] \in {"pull"} \cup {PullStage[to] : to \in ToResults}
    /\ \E o1 \in apiRequest \cap answers, o2 \in apiRequest \cap answers,
          o3 \in apiRequest \cap answers, empty \in empties :
         LET fetchedRooms == Fetch("getRooms", RemoteRooms, o1, empty)
             fetchedEmployees == Fetch("getEmployees", RemoteEmployees, o2, empty)
             fetchedAccessRights == Fetch("getAccessRights", RemoteAccessRights, o3, empty)
         IN  \E env \in Envs(O, syncFromServer(DBof(NoEnv), fetchedRooms, fetchedEmployees,
                                               fetchedAccessRights)) :
               \E out \in {syncFromServer(DBof(env), fetchedRooms, fetchedEmployees,
                                          fetchedAccessRights)} :
                   /\ StoreOf(out.db)
                   /\ lastSyncTime' = IF out.synced THEN now ELSE lastSyncTime
                   /\ lastCall' =
                          [op |-> "pull", ret |-> out.ret,
                           to |-> IF pc[c] = "pull" THEN "none" ELSE ToOf(pc[c]),
                           failed |-> {store \in EntityStores :
                                          \/ store = "rooms" /\ o1 \in Failures
                                          \/ store = "employees" /\ o2 \in Failures
                                          \/ store = "accessRights" /\ o3 \in Failures},
                           fetched |-> {store \in EntityStores :
                                           \/ store = "rooms" /\ fetchedRooms # <<>>
                                           \/ store = "employees" /\ fetchedEmployees # <<>>
                                           \/ store = "accessRights"
                                                /\ fetchedAccessRights # <<>>},
                           imported |-> out.imported]
                   /\ isSyncing' = (out.ret = "pending")
                   /\ pc' = [pc EXCEPT ![c] = IF out.ret = "pending" THEN "hung" ELSE "idle"]
    /\ UNCHANGED <<online, useMockData, queue>>

\* syncFromServer with any answer of the gateway
PullWith(c, O) == PullAnswered(c, O, {"mock", "ok"} \cup Failures, BOOLEAN)

\* syncFromServer on a store whose add requests succeed
Pull(c) == PullWith(c, Still)

\* fullSync up to the first dispatch of its syncToServer: the network test,
\* then the guard, the flag, getPendingChanges and the sort of syncToServer
FullSync(c) ==
    /\ pc[c] = "idle"
    /\ LET sorted == SortByTimestamp(getPendingChanges(DBof(NoEnv)))
       IN  IF ~online
           THEN /\ lastCall' = [op |-> "fullSync", ret |-> "false", to |-> "offline"]
                /\ UNCHANGED <<isSyncing, pc, queue>>
           ELSE IF Skips(online, isSyncing)
           THEN /\ lastCall' = [op |-> "fullSync", ret |-> "running", to |-> "skipped"]
                /\ pc' = [pc EXCEPT ![c] = FromStage["skipped"]]
                /\ UNCHANGED <<isSyncing, queue>>
           ELSE IF sorted = <<>>
           THEN /\ lastCall' = [op |-> "fullSync", ret |-> "running", to |-> "empty"]
                /\ pc' = [pc EXCEPT ![c] = FromStage["empty"]]
                /\ UNCHANGED <<isSyncing, queue>>
           ELSE /\ lastCall' = [op |-> "fullSync", ret |-> "running", to |-> "started"]
                /\ isSyncing' = TRUE
                /\ pc' = [pc EXCEPT ![c] = "fullDrain"]
                /\ queue' = [queue EXCEPT ![c] = sorted]
    /\ UNCHANGED <<storeVars, online, useMockData, lastSyncTime>>

\* fullSync after its syncToServer: the guard and the flag of syncFromServer;
\* when that call is skipped fullSync returns toServerResult || false
FullSyncFrom(c) ==
    /\ pc[c] \in {FromStage[to] : to \in ToResults}
    /\ IF Skips(online, isSyncing)
       THEN /\ lastCall' = [op |-> "fullSync",
                            ret |-> IF ToOf(pc[c]) = "skipped" THEN "false" ELSE "true",
                            to |-> ToOf(pc[c])]
            /\ pc' = [pc EXCEPT ![c] = "idle"]
            /\ UNCHANGED isSyncing
       ELSE /\ lastCall' = [op |-> "fullSync", ret |-> "running", to |-> ToOf(pc[c])]
            /\ isSyncing' = TRUE
            /\ pc' = [pc EXCEPT ![c] = PullStage[ToOf(pc[c])]]
    /\ UNCHANGED <<storeVars, online, useMockData, lastSyncTime, queue>>

\* DataProvider.syncData
ProviderSyncData ==
    /\ pendingChanges # <<>>
    /\ \E out \in {providerSyncData(DBof(NoEnv))} :
          /\ Stored(out.db)
          /\ pendingChangesCount' = out.count
    /\ inflight' = inflight
    /\ lastCall' = [op |-> "DataProvider.syncData", removed |-> Len(pendingChanges)]
    /\ UNCHANGED <<online, useMockData, isSyncing, lastSyncTime, pc, queue>>

\* the browser goes offline or online
NetworkChange ==
    /\ online' = ~online
    /\ lastCall' = [op |-> "network"]
    /\ UNCHANGED <<storeVars, useMockData, isSyncing, lastSyncTime, pc, queue>>

\* ------------------------------------------------------------------ specifications
\* DataProvider.seedInitialData: the rooms and employees of mock-data, one
\* accessRights row per entry of an employee's accessRooms, no pending change
SeedRooms == {[id |-> 1, number |-> "101", building |-> 1]}
SeedEmployees == {[id |-> 1, employeeId |-> "EMP001", accessRooms |-> <<1>>]}
SeedAccessRights == {[id |-> 1, employeeId |-> 1, roomId |-> 1]}

InitDatabase ==
    /\ rooms = SeedRooms
    /\ employees = SeedEmployees
    /\ accessRights = SeedAccessRights
    /\ roomKey = 2
    /\ employeeKey = 2
    /\ accessKey = 2
    /\ pendingChanges = <<>>
    /\ callOrder = <<>>
    /\ now = 1
    /\ inflight = NoneInFlight
    /\ pendingChangesCount = 0
    /\ lastCall = NoCall
    /\ isSyncing = FALSE
    /\ lastSyncTime = 0
    /\ pc = [c \in Callers |-> "idle"]
    /\ queue = [c \in Callers |-> <<>>]

InitStores ==
    /\ InitDatabase
    /\ quota = MaxPending

\* a production build started online: the gateway talks to the server
InitSeeded ==
    /\ InitStores
    /\ online = TRUE
    /\ useMockData = FALSE

\* the access rights engine on the seeded store
NextAccess ==
    \/ GrantAccess(Still)
    \/ RevokeAccess(Still)
    \/ DeleteRoom(Still)
    \/ DeleteEmployee(Still)
    \/ ProviderRevokeAccess(Still)

SpecAccess == InitSeeded /\ [][NextAccess]_vars

\* every call of the local store on the seeded store
NextStore ==
    \/ CreateRoom(Still)
    \/ UpdateRoom(Still)
    \/ DeleteRoom(Still)
    \/ CreateEmployee(Still, RoomLists)
    \/ UpdateEmployee(Still)
    \/ DeleteEmployee(Still)
    \/ GrantAccess(Still)
    \/ RevokeAccess(Still)
    \/ ProviderRevokeAccess(Still)

SpecStore == InitSeeded /\ [][NextStore]_vars

\* useMockData is set at construction: a development build, or started offline
InitSync ==
    /\ InitStores
    /\ \E dev \in BOOLEAN, on \in BOOLEAN :
          /\ online = on
          /\ useMockData = (dev \/ ~on)

\* the sync calls of the callers, the network, and room creation as the
\* local mutation that fills the outbox
NextSync ==
    \/ CreateRoom(Still)
    \/ \E c \in Callers : SyncToServer(c)
    \/ \E c \in Callers : Dispatch(c)
    \/ \E c \in Callers : SyncFromServer(c)
    \/ \E c \in Callers : Pull(c)
    \/ NetworkChange

SpecSync == InitSync /\ [][NextSync]_vars

\* the outbox of a production build that stays online: local mutations at any
\* time and with any UUIDs, the drains of one caller, DataProvider.syncData
NextDrain ==
    \/ CreateRoom(Oracle)
    \/ GrantAccess(Oracle)
    \/ SyncToServer("user")
    \/ Dispatch("user")
    \/ ProviderSyncData

SpecDrain == InitSeeded /\ [][NextDrain]_vars

\* fullSync calls of one caller next to the syncToServer of another, room
\* creation as the local mutation, the network
NextFull ==
    \/ CreateRoom(Still)
    \/ FullSync("user")
    \/ FullSyncFrom("user")
    \/ Pull("user")
    \/ SyncToServer("online")
    \/ \E c \in {"user", "online"} : Dispatch(c)
    \/ NetworkChange

SpecFull == InitSeeded /\ [][NextFull]_vars

\* a production build that stays online, with room for the entries of a room
\* and its grants in the pendingChanges store
InitScenario ==
    /\ InitDatabase
    /\ quota = MaxOutbox
    /\ online = TRUE
    /\ useMockData = FALSE

\* rooms are created and access is granted locally, a caller drains the outbox
NextScenario ==
    \/ CreateRoom(Still)
    \/ GrantAccess(Still)
    \/ SyncToServer("user")
    \/ Dispatch("user")

SpecScenario == InitScenario /\ [][NextScenario]_vars

\* the room dialog on a store whose employees are edited
NextDialog ==
    \/ HandleSaveRoom(Still)
    \/ UpdateEmployee(Still)

SpecDialog == InitScenario /\ [][NextDialog]_vars

\* the room calls of the local store where the add of a pending change may fail
NextFaulty ==
    \/ CreateRoom(Faulty)
    \/ UpdateRoom(Faulty)
    \/ DeleteRoom(Faulty)

SpecFaulty == InitSeeded /\ [][NextFaulty]_vars

\* ------------------------------------------------------------------ claims on the local store
RowsOf(e, r) == {a \in accessRights : a.employeeId = e /\ a.roomId = r}

\* C1: for every employee e of the store, the room ids in e.accessRooms are
\* the roomId values of the accessRights rows of e, after any sequence of
\* grantAccess, revokeAccess, deleteRoom and deleteEmployee calls
C1_AccessRoomsAreRows ==
    \A x \in employees :
        Range(x.accessRooms) = {a.roomId : a \in {b \in accessRights : b.employeeId = x.id}}

\* C3: from an empty outbox, N successful mutating calls leave exactly N
\* pending changes, one per call, and getPendingChanges returns them in call order
C3_OutboxCompleteness ==
    [][(lastCall'.op \in StoreCalls /\ lastCall'.counted) =>
          /\ Len(pendingChanges') = Len(pendingChanges) + 1
          /\ SubSeq(pendingChanges', 1, Len(pendingChanges)) = pendingChanges]_vars

\* C7: after grantAccess(e, r) was called twice in sequence for an existing
\* employee e there is exactly one row (e, r), r is exactly once in
\* e.accessRooms and the second call returned true
C7_GrantTwice ==
    (lastCall.op = "grantAccess" /\ lastCall.again /\ lastCall.e \in Ids(employees)) =>
        /\ Cardinality(RowsOf(lastCall.e, lastCall.r)) = 1
        /\ \A x \in employees : x.id = lastCall.e => Count(x.accessRooms, lastCall.r) = 1
        /\ lastCall.ret = "true"

\* C8: a revokeAccess(e, r) of a pair without accessRights row returns true
\* and leaves rooms, employees, accessRights and the pending changes as they were
C8_RevokeNotGranted ==
    [][(/\ lastCall'.op \in {"revokeAccess", "DataProvider.revokeAccess"}
        /\ RowsOf(lastCall'.e, lastCall'.r) = {})
       => (lastCall'.ret = "true" /\ UNCHANGED storeVars)]_vars

C8_Witness ==
    /\ lastCall.op \in {"revokeAccess", "DataProvider.revokeAccess"}
    /\ ~lastCall.pre
    /\ lastCall.ret = "true"
    /\ \E x \in employees : x.id = lastCall.e /\ lastCall.r \in Range(x.accessRooms)
    /\ pendingChanges # <<>>

\* C9: after deleteRoom(id) of an existing room the room is gone, no
\* accessRights row has roomId = id and id is in no employee's accessRooms
C9_DeleteRoomCascade ==
    (lastCall.op = "deleteRoom" /\ lastCall.pre) =>
        /\ lastCall.r \notin Ids(rooms)
        /\ \A a \in accessRights : a.roomId # lastCall.r
        /\ \A x \in employees : lastCall.r \notin Range(x.accessRooms)

\* C10: a createRoom whose (number, building) is already in the store fails
\* and no two rooms share (number, building)
C10_RoomConflict ==
    (lastCall.op = "createRoom" /\ lastCall.pre) =>
        /\ lastCall.ret = "throw"
        /\ \A x, y \in rooms : (x.number = y.number /\ x.building = y.building) => x.id = y.id

\* ------------------------------------------------------------------ claims on the sync
\* C2: in a drain an entry whose gateway call failed (unreachable, timeout,
\* rejected) stays in the outbox and an entry whose call succeeded is
\* discarded, for every kind of operation
C2_FailedStaysQueued ==
    lastCall.op = "processChange" =>
        /\ lastCall.outcome \in Failures => ~lastCall.discarded
        /\ lastCall.outcome = "ok" => lastCall.discarded

\* C4: at most one drain or pull is active, and a syncToServer or
\* syncFromServer call made while one is active returns false, starts no
\* cycle and changes neither the outbox nor the flag
C4_OneCycle ==
    /\ [](Cardinality({c \in Callers : pc[c] \in Active}) <= 1)
    /\ [][(lastCall'.op \in {"syncToServer", "syncFromServer"} /\ lastCall'.busy)
            => (lastCall'.ret = "false" /\ UNCHANGED <<storeVars, syncVars>>)]_vars

C4_Witness ==
    /\ lastCall.op \in {"syncToServer", "syncFromServer"}
    /\ lastCall.busy
    /\ lastCall.ret = "false"
    /\ online
    /\ \E c \in Callers : pc[c] = "drain" /\ Len(queue[c]) = MaxPending

\* C5: a sync step removes a pending change only after the gateway was
\* called for it and accepted the call
C5_RemovedWhenAccepted ==
    /\ (lastCall.op = "processChange" /\ lastCall.discarded) =>
            (lastCall.method # "none" /\ lastCall.outcome = "ok")
    /\ lastCall.op = "DataProvider.syncData" => lastCall.removed = 0

\* C6: a drain dispatches the pending changes in the order they were
\* recorded: by timestamp, and in insertion order where timestamps are equal
RecordedBefore(a, b) ==
    \/ a.timestamp < b.timestamp
    \/ /\ a.timestamp = b.timestamp
       /\ \E i, j \in DOMAIN callOrder : i < j /\ callOrder[i] = a.id /\ callOrder[j] = b.id

C6_DispatchOrder ==
    \A c \in Callers : \A i, j \in DOMAIN queue[c] :
        (i < j /\ {queue[c][i].id, queue[c][j].id} \subseteq Range(callOrder)) =>
            RecordedBefore(queue[c][i], queue[c][j])

\* C11: in syncFromServer, whichever fetches throw, every entity type whose
\* fetch returned a list that is not empty is in the local store afterwards,
\* the types whose fetch threw are as they were, the call returns true and
\* the syncing flag is cleared
C11_FetchesIsolated ==
    [][lastCall'.op = "pull" =>
          /\ "rooms" \in lastCall'.fetched => Range(RemoteRooms) \subseteq rooms'
          /\ "employees" \in lastCall'.fetched => Range(RemoteEmployees) \subseteq employees'
          /\ "accessRights" \in lastCall'.fetched =>
                 Range(RemoteAccessRights) \subseteq accessRights'
          /\ "rooms" \in lastCall'.failed => rooms' = rooms
          /\ "employees" \in lastCall'.failed => employees' = employees
          /\ "accessRights" \in lastCall'.failed => accessRights' = accessRights
          /\ lastCall'.ret = "true"
          /\ ~isSyncing']_vars

\* C12: syncFromServer changes lastSyncTime only when the import of at least
\* one entity type went into the local store during the call
C12_LastSyncTimeOnImport ==
    [][(lastCall'.op = "pull" /\ lastCall'.imported = {}) =>
          lastSyncTime' = lastSyncTime]_vars

\* C14: after grantAccess(e, r) or revokeAccess(e, r) returned, with success
\* or failure, the accessRights row (e, r) exists exactly when r is in the
\* accessRooms of employee e; for a missing employee no row is inserted
C14_AccessAtomic ==
    lastCall.op \in {"grantAccess", "revokeAccess"} =>
        (RowsOf(lastCall.e, lastCall.r) # {}
            <=> \E x \in employees : x.id = lastCall.e /\ lastCall.r \in Range(x.accessRooms))

\* C16: deleteRoom(id) of an id that is not in the rooms store fails and
\* leaves rooms, accessRights, employees and the pending changes as they were
C16_DeleteMissingRoom ==
    [][(lastCall'.op = "deleteRoom" /\ ~lastCall'.pre) =>
          /\ ~Succeeded(lastCall'.ret)
          /\ UNCHANGED <<rooms, accessRights, employees, pendingChanges>>]_vars

\* C15: a call of the local store that fails leaves the data stores and the
\* pending changes as they were (a store write whose pending change cannot be
\* appended is rolled back), and a pending change is appended only by a call
\* that succeeds
C15_OutboxCoupled ==
    [][lastCall'.op \in StoreCalls =>
          /\ ~Succeeded(lastCall'.ret) =>
                 UNCHANGED <<rooms, employees, accessRights, pendingChanges>>
          /\ Len(pendingChanges') > Len(pendingChanges) => Succeeded(lastCall'.ret)]_vars

\* the gateway calls of a cycle with this method for this room, or this pair
Calls(sent, method, e, r) ==
    Cardinality({i \in DOMAIN sent :
                    /\ sent[i].method = method
                    /\ IF method = "createRoom" THEN sent[i].data.id = r
                       ELSE sent[i].data.employeeId = e /\ sent[i].data.roomId = r})

\* C13: when rooms were created and access to them granted locally and the
\* first syncToServer cycle then runs online with every gateway call
\* succeeding and no other step during the cycle, the pending changes are
\* empty when it returns and the gateway received exactly one createRoom
\* call per room and one grantAccess call per granted pair
C13_CreateGrantSync ==
    [][(/\ lastCall'.op = "processChange"
        /\ lastCall'.ret = "true"
        /\ lastCall'.allOk
        /\ lastSyncTime = 0)
       => /\ pendingChanges' = <<>>
          /\ \A x \in rooms \ SeedRooms :
                /\ Calls(lastCall'.sent, "createRoom", 0, x.id) = 1
                /\ \A a \in accessRights :
                      a.roomId = x.id =>
                          Calls(lastCall'.sent, "grantAccess", a.employeeId, a.roomId) = 1]_vars

C13_Witness ==
    /\ lastCall.op = "processChange"
    /\ lastCall.ret = "true"
    /\ lastCall.allOk
    /\ Len(lastCall.sent) = 3
    /\ pendingChanges = <<>>
    /\ \E x \in rooms \ SeedRooms :
          /\ RowsOf(1, x.id) # {}
          /\ \E y \in employees : y.id = 1 /\ x.id \in Range(y.accessRooms)
          /\ Calls(lastCall.sent, "createRoom", 0, x.id) = 1
          /\ Calls(lastCall.sent, "grantAccess", 1, x.id) = 1

PendingIds == {pendingChanges[i].id : i \in DOMAIN pendingChanges}

\* C17: while a cycle drains the outbox no pending change is lost: the only
\* entry a step takes out of the pendingChanges store is the one the cycle
\* replays in that step, so an entry a mutation appended during the cycle is
\* still in the store when the cycle ends
C17_NothingLost ==
    [][\A c \in Callers :
          pc[c] = "drain" =>
              \A id \in PendingIds \ PendingIds' :
                  id = Head(queue[c]).id /\ lastCall'.op = "processChange"]_vars

\* C18: fullSync runs syncFromServer after its syncToServer whatever that
\* returned, and returns true exactly when a direction made progress: its
\* syncToServer drained the outbox or its syncFromServer fetched a list; it
\* returns false when offline and when neither direction did anything
C18_FullSyncResult ==
    /\ (lastCall.op = "fullSync" /\ lastCall.ret # "running") =>
            (lastCall.ret = "true" <=> lastCall.to = "drained")
    /\ (lastCall.op = "pull" /\ lastCall.to # "none") =>
            (lastCall.to = "drained" \/ lastCall.fetched # {})

C20_Reconcile ==
    lastCall.op = "handleSaveRoom" =>
        /\ Range(lastCall.grants) = lastCall.desired \ lastCall.before
        /\ Len(lastCall.grants) = Cardinality(Range(lastCall.grants))
        /\ Range(lastCall.revokes) = lastCall.before \ lastCall.desired
        /\ Len(lastCall.revokes) = Cardinality(Range(lastCall.revokes))
        /\ {a.employeeId : a \in RowsFor(lastCall.r)} = lastCall.desired

\* C21: createEmployee and updateEmployee do not change who can access what:
\* the employee a successful createEmployee or updateEmployee stored has the
\* room ids of its accessRights rows as accessRooms, and updateEmployee of an
\* employee that exists leaves its accessRooms as they were
C21_AccessFrame ==
    [][(lastCall'.op \in {"createEmployee", "updateEmployee"} /\ Succeeded(lastCall'.ret)) =>
          /\ \A x \in employees' :
                x.id = lastCall'.e =>
                    Range(x.accessRooms) =
                        {a.roomId : a \in {b \in accessRights' : b.employeeId = x.id}}
          /\ \A x \in employees, y \in employees' :
                (lastCall'.op = "updateEmployee" /\ x.id = lastCall'.e /\ y.id = x.id) =>
                    y.accessRooms = x.accessRooms]_vars

\* ------------------------------------------------------------------ the employee form and the import
\* EmployeeManagement.handleSaveEmployee: updateEmployee for an employee that
\* is edited, createEmployee for a new one; an error of the call is caught
handleSaveEmployee(db, isEditing, newEmployee) ==
    IF isEditing
    THEN LET out == updateEmployee(db, newEmployee)
         IN  [db |-> out.db, ret |-> out.ret, id |-> newEmployee.id]
    ELSE createEmployee(db, newEmployee)

\* the form saves; its record: e, the employee the call was about (0 for a
\* create that failed); ret, what createEmployee or updateEmployee returned;
\* pre, another employee of the store had the employeeId of the form
HandleSaveEmployee(O) ==
    \E isEditing \in BOOLEAN, badge \in Badges, accessRooms \in RoomLists :
     \E id \in IF isEditing THEN Ids(employees) ELSE {0} :
      LET newEmployee == [id |-> id, employeeId |-> badge, accessRooms |-> accessRooms]
      IN  \E env \in Envs(O, handleSaveEmployee(DBof(NoEnv), isEditing, newEmployee)) :
            \E out \in {handleSaveEmployee(DBof(env), isEditing, newEmployee)} :
                /\ StoreOf(out.db)
                /\ lastCall' = [op |-> "handleSaveEmployee", isEditing |-> isEditing,
                                e |-> out.id, ret |-> out.ret,
                                pre |-> \E x \in employees :
                                           x.id # newEmployee.id /\ x.employeeId = badge]
                /\ UNCHANGED syncVars

\* the batches of an import file: up to two employees without id
EmployeeBatches ==
    UNION {[1 .. n -> [id : {0}, employeeId : Badges, accessRooms : {<<>>}]] : n \in 1 .. 2}

\* bulkImportEmployees of a batch; pre: an employeeId of the batch is in the
\* store or twice in the batch
BulkImportEmployees(O) ==
    \E employeesOfFile \in EmployeeBatches :
      \E env \in Envs(O, bulkImportEmployees(DBof(NoEnv), employeesOfFile)) :
        \E out \in {bulkImportEmployees(DBof(env), employeesOfFile)} :
            /\ StoreOf(out.db)
            /\ lastCall' = [op |-> "bulkImportEmployees", ret |-> out.ret,
                            pre |-> \/ \E i \in DOMAIN employeesOfFile, x \in employees :
                                          x.employeeId = employeesOfFile[i].employeeId
                                    \/ \E i, j \in DOMAIN employeesOfFile :
                                          /\ i # j
                                          /\ employeesOfFile[i].employeeId =
                                                 employeesOfFile[j].employeeId]
            /\ UNCHANGED syncVars

\* the employees of the seeded store: the form, the import, deleteEmployee
NextEmployees ==
    \/ HandleSaveEmployee(Still)
    \/ BulkImportEmployees(Still)
    \/ DeleteEmployee(Still)

SpecEmployees == InitSeeded /\ [][NextEmployees]_vars

\* C22: no two employees of the store share an employeeId, and a
\* createEmployee, updateEmployee or bulkImportEmployees call that would give
\* a second employee an employeeId of the store fails, stores nothing and
\* appends no pending change
C22_EmployeeIdUnique ==
    /\ [](\A x, y \in employees : x.employeeId = y.employeeId => x.id = y.id)
    /\ [][(lastCall'.op \in {"handleSaveEmployee", "bulkImportEmployees"} /\ lastCall'.pre) =>
              /\ ~Succeeded(lastCall'.ret)
              /\ UNCHANGED <<employees, employeeKey, pendingChanges>>]_vars

C22_Witness ==
    /\ lastCall.op = "bulkImportEmployees"
    /\ lastCall.pre
    /\ lastCall.ret = "throw"
    /\ Cardinality(employees) = 2
    /\ Len(pendingChanges) = 2

\* C24: after deleteEmployee(id) of an employee of the store the employee is
\* gone, no accessRights row has employeeId = id, and the call appended
\* exactly one pending change: the delete of employee id
C24_DeleteEmployeeCascade ==
    [][(lastCall'.op = "deleteEmployee" /\ lastCall'.pre) =>
          /\ lastCall'.ret = "true"
          /\ lastCall'.e \notin Ids(employees')
          /\ \A a \in accessRights' : a.employeeId # lastCall'.e
          /\ Len(pendingChanges') = Len(pendingChanges) + 1
          /\ SubSeq(pendingChanges', 1, Len(pendingChanges)) = pendingChanges
          /\ LET added == pendingChanges'[Len(pendingChanges')]
             IN  /\ added.operation = "delete"
                 /\ added.entityType = "employee"
                 /\ added.data.id = lastCall'.e]_vars

C24_Witness ==
    /\ lastCall.op = "deleteEmployee"
    /\ lastCall.pre
    /\ lastCall.ret = "true"
    /\ lastCall.e \in Ids(SeedEmployees)
    /\ lastCall.e \notin Ids(employees)
    /\ employees # {}
    /\ accessRights = {}
    /\ Len(pendingChanges) = 2
    /\ pendingChanges[1].operation = "create"
    /\ pendingChanges[1].entityType = "employee"
    /\ pendingChanges[2].operation = "delete"

\* C26: when no call is running every accessRights row refers to an employee
\* of the employees store and to a room of the rooms store
C26_NoDanglingRow ==
    \A a \in accessRights : a.employeeId \in Ids(employees) /\ a.roomId \in Ids(rooms)

\* C27: a gateway method called while the network is down, or whose request
\* times out or is rejected, reports the failure to its caller (it throws or
\* returns false): it does not report success and returns no fixture data
C27_GatewayReportsFailure ==
    /\ (lastCall.op = "processChange" /\ lastCall.method # "none") =>
            ((~online \/ lastCall.outcome \in Failures) =>
                 ServerApi(lastCall.method, lastCall.outcome) \in {"throw", "false"})
    /\ (lastCall.op = "pull" /\ ~online) => lastCall.fetched = {}

\* ------------------------------------------------------------------ discards
\* the ids a sync attempt may hold: the UUIDs of entries it read at some time
ChangeIds == 1 .. (2 * MaxOutbox + 2)

\* a sync attempt discards an entry it has replayed; the store is shared, so
\* the entry may be gone already. Its record: present, the id was in the
\* store; again, the call before was the discard of the same id
DeletePendingChange ==
    \E id \in ChangeIds :
      \E out \in {deletePendingChange(DBof(NoEnv), id)} :
        /\ StoreOf(out.db)
        /\ lastCall' = [op |-> "deletePendingChange", id |-> id, ret |-> out.ret,
                        present |-> id \in {pendingChanges[i].id : i \in DOMAIN pendingChanges},
                        again |-> lastCall.op = "deletePendingChange" /\ lastCall.id = id]
        /\ UNCHANGED syncVars

\* room calls fill the outbox, sync attempts discard its entries
NextDiscard ==
    \/ CreateRoom(Still)
    \/ UpdateRoom(Still)
    \/ DeletePendingChange

SpecDiscard == InitScenario /\ [][NextDiscard]_vars

\* C28: deletePendingChange(id) returns true and takes exactly the entry id
\* out of the pending changes; for an id that is not in the store, as in the
\* second of two discards of the same entry, it changes nothing
C28_DiscardIdempotent ==
    [][lastCall'.op = "deletePendingChange" =>
          /\ lastCall'.ret = "true"
          /\ pendingChanges' = SelectSeq(pendingChanges, LAMBDA x : x.id # lastCall'.id)
          /\ (~lastCall'.present \/ lastCall'.again) => pendingChanges' = pendingChanges
          /\ UNCHANGED <<rooms, employees, accessRights>>]_vars

C28_Witness ==
    /\ lastCall.op = "deletePendingChange"
    /\ lastCall.again
    /\ ~lastCall.present
    /\ lastCall.ret = "true"
    /\ Len(pendingChanges) = 2

NextStorage ==
    \/ CreateRoom(Still)
    \/ \E c \in {"user", "online"} : SyncToServer(c)
    \/ \E c \in {"user", "online"} : Dispatch(c)
    \/ \E c \in {"user", "online"} : SyncFromServer(c)
    \/ \E c \in {"user", "online"} : PullWith(c, Faulty)
    \/ NetworkChange

SpecStorage == InitSeeded /\ [][NextStorage]_vars

\* C30: whenever no caller is in a drain or a pull that still has a step to
\* take the syncing flag is false
C30_FlagCleared ==
    (\A c \in Callers : pc[c] \notin Active) => ~isSyncing

\* ------------------------------------------------------------------ store calls in flight
\* the data variables: what a step of a call that is in flight leaves alone
\* when it only reads
dataVars == <<rooms, employees, accessRights, roomKey, employeeKey, accessKey,
              pendingChanges, callOrder, now, quota, pendingChangesCount>>

NoEmployee == [id |-> 0, employeeId |-> "", accessRooms |-> <<>>]

AllIdle(tasks) == \A t \in Tasks : tasks[t] = Idle

\* task t may start a call: nothing is in flight, or one call is and t's is
\* the second of the calls that overlap
MayBegin(t) ==
    /\ inflight.tasks[t] = Idle
    /\ AllIdle(inflight.tasks) \/ Len(inflight.calls) = 1

\* inflight after task t started call and went on to position next
Begun(t, call, next) ==
    IF AllIdle(inflight.tasks)
    THEN [tasks |-> [inflight.tasks EXCEPT ![t] = next],
          base |-> [employees |-> employees, accessRights |-> accessRights],
          calls |-> <<call>>]
    ELSE [inflight EXCEPT !.tasks[t] = next, !.calls = Append(@, call)]

\* the record of a call that returned
ReturnOf(t, op, e, r, ret) == [op |-> op, task |-> t, e |-> e, r |-> r, ret |-> ret]
AwaitOf(t) == [op |-> "await", task |-> t]

\* grantAccess up to its first write: the test for an existing row
GrantAccessBegin(t) ==
    /\ MayBegin(t)
    /\ \E employeeId \in Keys, roomId \in Keys :
         LET existingAccess == getAccessRights(DBof(NoEnv), roomId, employeeId)
             call == [op |-> "grantAccess", e |-> employeeId, r |-> roomId,
                      employee |-> NoEmployee, records |-> <<>>]
         IN  IF existingAccess # {}
             THEN /\ inflight' = Begun(t, call, Idle)
                  /\ lastCall' = ReturnOf(t, "grantAccess", employeeId, roomId, "true")
             ELSE /\ inflight' = Begun(t, call, [at |-> "add", op |-> "grantAccess",
                                                 e |-> employeeId, r |-> roomId])
                  /\ lastCall' = AwaitOf(t)
    /\ UNCHANGED <<dataVars, syncVars>>

\* the add of the accessRights row; when it fails (the pair is in the store
\* by now) grantAccess catches the error and returns false
GrantAccessAdd(t) ==
    /\ inflight.tasks[t].at = "add"
    /\ LET call == inflight.tasks[t]
           added == addAccessRight(DBof(NoEnv), [id |-> 0, employeeId |-> call.e,
                                                 roomId |-> call.r])
       IN  /\ Written(added.db)
           /\ IF added.ok
              THEN /\ inflight' = [inflight EXCEPT !.tasks[t] =
                                      [at |-> "getEmployeeById", op |-> call.op,
                                       e |-> call.e, r |-> call.r, accessId |-> added.id]]
                   /\ lastCall' = AwaitOf(t)
              ELSE /\ inflight' = [inflight EXCEPT !.tasks[t] = Idle]
                   /\ lastCall' = ReturnOf(t, "grantAccess", call.e, call.r, "false")
    /\ UNCHANGED syncVars

\* revokeAccess up to its first write: the rows of the pair
RevokeAccessBegin(t) ==
    /\ MayBegin(t)
    /\ \E employeeId \in Keys, roomId \in Keys :
         LET found == getAccessRights(DBof(NoEnv), roomId, employeeId)
             call == [op |-> "revokeAccess", e |-> employeeId, r |-> roomId,
                      employee |-> NoEmployee, records |-> <<>>]
         IN  IF found = {}
             THEN /\ inflight' = Begun(t, call, Idle)
                  /\ lastCall' = ReturnOf(t, "revokeAccess", employeeId, roomId, "true")
             ELSE /\ inflight' = Begun(t, call, [at |-> "delete", op |-> "revokeAccess",
                                                 e |-> employeeId, r |-> roomId,
                                                 found |-> Ids(found)])
                  /\ lastCall' = AwaitOf(t)
    /\ UNCHANGED <<dataVars, syncVars>>

\* the deletes of the rows revokeAccess found
RevokeAccessDelete(t) ==
    /\ inflight.tasks[t].at = "delete"
    /\ LET call == inflight.tasks[t]
           db == DBof(NoEnv)
       IN  /\ Written([db EXCEPT !.accessRights = {a \in @ : a.id \notin call.found}])
           /\ inflight' = [inflight EXCEPT !.tasks[t] =
                              [at |-> "getEmployeeById", op |-> call.op,
                               e |-> call.e, r |-> call.r, accessId |-> 0]]
           /\ lastCall' = AwaitOf(t)
    /\ UNCHANGED syncVars

\* getEmployeeById of grantAccess and revokeAccess: the call keeps the
\* employee it read, with the room pushed or filtered out
TaskGetEmployee(t) ==
    /\ inflight.tasks[t].at = "getEmployeeById"
    /\ LET call == inflight.tasks[t]
           employee == getEmployeeById(DBof(NoEnv), call.e)
           x == CHOOSE x \in employee : TRUE
           writes == IF call.op = "grantAccess"
                     THEN \E y \in employee : call.r \notin Range(y.accessRooms)
                     ELSE employee # {}
           changed == IF call.op = "grantAccess"
                      THEN [x EXCEPT !.accessRooms = Append(@, call.r)]
                      ELSE [x EXCEPT !.accessRooms = SelectSeq(@, LAMBDA id : id # call.r)]
       IN  inflight' = [inflight EXCEPT !.tasks[t] =
                           IF writes
                           THEN [at |-> "updateEmployee", op |-> call.op, e |-> call.e,
                                 r |-> call.r, accessId |-> call.accessId,
                                 employee |-> changed]
                           ELSE [at |-> "addPendingChange", op |-> call.op, e |-> call.e,
                                 r |-> call.r, accessId |-> call.accessId]]
    /\ lastCall' = AwaitOf(t)
    /\ UNCHANGED <<dataVars, syncVars>>

\* the updateEmployee of grantAccess and revokeAccess: the employee the call
\* read is put back; what updateEmployee returns is not looked at
TaskUpdateEmployee(t) ==
    /\ inflight.tasks[t].at = "updateEmployee"
    /\ LET call == inflight.tasks[t]
       IN  /\ Written(updateEmployee(DBof(NoEnv), call.employee).db)
           /\ inflight' = [inflight EXCEPT !.tasks[t] =
                              [at |-> "addPendingChange", op |-> call.op, e |-> call.e,
                               r |-> call.r, accessId |-> call.accessId]]
           /\ lastCall' = AwaitOf(t)
    /\ UNCHANGED syncVars

\* the pending change of grantAccess and revokeAccess, and the return
TaskAddPendingChange(t) ==
    /\ inflight.tasks[t].at = "addPendingChange"
    /\ LET call == inflight.tasks[t]
           out == Returned(addPendingChange(DBof(NoEnv),
                                            IF call.op = "grantAccess" THEN "grant"
                                            ELSE "revoke",
                                            "access", Data(call.accessId, call.e, call.r)),
                           "true", "false")
       IN  /\ Written(out.db)
           /\ inflight' = [inflight EXCEPT !.tasks[t] = Idle]
           /\ lastCall' = ReturnOf(t, call.op, call.e, call.r, out.ret)
    /\ UNCHANGED syncVars

\* updateEmployee of the employee form: an employee of the store with the
\* accessRooms of the form
TaskSaveEmployee(t) ==
    /\ MayBegin(t)
    /\ \E selectedEmployee \in employees, accessRooms \in RoomLists :
         LET employee == [selectedEmployee EXCEPT !.accessRooms = accessRooms]
             call == [op |-> "updateEmployee", e |-> employee.id, r |-> 0,
                      employee |-> employee, records |-> <<>>]
             out == updateEmployee(DBof(NoEnv), employee)
         IN  /\ Written(out.db)
             /\ inflight' = Begun(t, call, Idle)
             /\ lastCall' = ReturnOf(t, "updateEmployee", employee.id, 0, out.ret)
    /\ UNCHANGED syncVars

\* the batches of bulkImportAccessRights: one row without id
AccessBatches ==
    [1 .. 1 -> [id : {0}, employeeId : Keys, roomId : Keys]]

\* bulkImportAccessRights: the adds of the batch are one transaction
TaskBulkImportAccessRights(t) ==
    /\ MayBegin(t)
    /\ \E accessRightsOfBatch \in AccessBatches :
         LET call == [op |-> "bulkImportAccessRights", e |-> 0, r |-> 0,
                      employee |-> NoEmployee, records |-> accessRightsOfBatch]
             out == bulkImportAccessRights(DBof(NoEnv), accessRightsOfBatch)
         IN  /\ Written(out.db)
             /\ inflight' = Begun(t, call, Idle)
             /\ lastCall' = ReturnOf(t, "bulkImportAccessRights", 0, 0, out.ret)
    /\ UNCHANGED syncVars

\* two UI actions at a time on the seeded store
NextRace ==
    \E t \in Tasks :
        \/ GrantAccessBegin(t)
        \/ GrantAccessAdd(t)
        \/ RevokeAccessBegin(t)
        \/ RevokeAccessDelete(t)
        \/ TaskGetEmployee(t)
        \/ TaskUpdateEmployee(t)
        \/ TaskAddPendingChange(t)
        \/ TaskSaveEmployee(t)
        \/ TaskBulkImportAccessRights(t)

\* room in the pendingChanges store for the entries of two calls
InitRace ==
    /\ InitDatabase
    /\ quota = MaxOutbox
    /\ online = TRUE
    /\ useMockData = FALSE

SpecRace == InitRace /\ [][NextRace]_vars

\* C23: the accessRights store never holds two rows of one (employeeId,
\* roomId) pair, whatever grantAccess and bulkImportAccessRights calls
\* overlap, and a grantAccess of a pair that is in the store when the call
\* returns, the grant that lost a race included, returned true
C23_OneRowPerPair ==
    /\ \A a, b \in accessRights :
          (a.employeeId = b.employeeId /\ a.roomId = b.roomId) => a.id = b.id
    /\ (lastCall.op = "grantAccess" /\ RowsOf(lastCall.e, lastCall.r) # {}) =>
            lastCall.ret = "true"

\* the result of a call on db, as a call that runs alone
Replay(db, call) ==
    CASE call.op = "grantAccess" -> grantAccess(db, call.e, call.r).db
      [] call.op = "revokeAccess" -> revokeAccess(db, call.e, call.r).db
      [] call.op = "updateEmployee" -> updateEmployee(db, call.employee).db
      [] call.op = "bulkImportAccessRights" -> bulkImportAccessRights(db, call.records).db

\* who can access what: the employees and the pairs of the accessRights rows
Outcome(db) ==
    [employees |-> db.employees,
     access |-> {[employeeId |-> a.employeeId, roomId |-> a.roomId] : a \in db.accessRights}]

\* the database when the first of the overlapping calls started
BaseDb ==
    [DBof(NoEnv) EXCEPT !.employees = inflight.base.employees,
                        !.accessRights = inflight.base.accessRights,
                        !.pendingChanges = <<>>,
                        !.callOrder = <<>>]

\* C25: when two calls among grantAccess, revokeAccess and updateEmployee
\* for the same employee overlapped and both have returned, the employees
\* and the access rows are what the two calls leave when one runs after the
\* other, in one of the two orders
C25_Serializable ==
    LET calls == inflight.calls
    IN  (/\ AllIdle(inflight.tasks)
         /\ Len(calls) = 2
         /\ calls[1].e = calls[2].e
         /\ \A i \in 1 .. 2 : calls[i].op \in {"grantAccess", "revokeAccess", "updateEmployee"})
        => Outcome(DBof(NoEnv)) \in {Outcome(Replay(Replay(BaseDb, calls[1]), calls[2])),
                                     Outcome(Replay(Replay(BaseDb, calls[2]), calls[1]))}

\* ------------------------------------------------------------------ triggers of useDataService
\* the hook's syncing state as a syncData closure can see it: some caller is
\* inside its syncData
HookBusy == \E d \in Callers : pc[d] \notin {"idle", "triggered"}

\* useDataService.createRoom: localDb.createRoom, the pending changes count,
\* then syncData() when online; a createRoom that throws ends the handler
CreateRoomTriggered(c) ==
    /\ pc[c] = "idle"
    /\ \E number \in Numbers, building \in Buildings :
         \E env \in Envs(Still, createRoom(DBof(NoEnv), [number |-> number, building |-> building])) :
           \E out \in {createRoom(DBof(env), [number |-> number, building |-> building])} :
               /\ StoreOf(out.db)
               /\ lastCall' = [op |-> "createRoom", e |-> 0, r |-> out.id, ret |-> out.ret,
                               pre |-> \E x \in rooms : x.number = number /\ x.building = building,
                               again |-> FALSE, counted |-> Succeeded(out.ret),
                               busy |-> isSyncing]
               /\ pc' = [pc EXCEPT ![c] = IF online /\ out.ret = "room" THEN "triggered" ELSE "idle"]
    /\ UNCHANGED <<online, useMockData, isSyncing, lastSyncTime, queue>>

\* useDataService.syncData up to the first dispatch of its syncToServer: the
\* guard of the hook (seen: the syncing state in the closure that is called,
\* which may be the one of an earlier render), then the guard, the flag,
\* getPendingChanges and the sort of syncToServer
SyncData(c) ==
    /\ pc[c] = "triggered"
    /\ \E seen \in {FALSE, HookBusy} :
         LET sorted == SortByTimestamp(getPendingChanges(DBof(NoEnv)))
         IN  IF ~online \/ seen
             THEN /\ lastCall' = [op |-> "syncData", ret |-> "none", to |-> "guarded"]
                  /\ pc' = [pc EXCEPT ![c] = "idle"]
                  /\ UNCHANGED <<isSyncing, queue>>
             ELSE IF Skips(online, isSyncing)
             THEN /\ lastCall' = [op |-> "syncData", ret |-> "running", to |-> "skipped"]
                  /\ pc' = [pc EXCEPT ![c] = FromStage["skipped"]]
                  /\ UNCHANGED <<isSyncing, queue>>
             ELSE IF sorted = <<>>
             THEN /\ lastCall' = [op |-> "syncData", ret |-> "running", to |-> "empty"]
                  /\ pc' = [pc EXCEPT ![c] = FromStage["empty"]]
                  /\ UNCHANGED <<isSyncing, queue>>
             ELSE /\ lastCall' = [op |-> "syncData", ret |-> "running", to |-> "started"]
                  /\ isSyncing' = TRUE
                  /\ pc' = [pc EXCEPT ![c] = "fullDrain"]
                  /\ queue' = [queue EXCEPT ![c] = sorted]
    /\ UNCHANGED <<storeVars, online, useMockData, lastSyncTime>>

\* the steps of the syncData call of a caller on a network that stays
\* reachable, with a gateway that accepts every call and a server that holds
\* no records
Cycle(c) ==
    \/ SyncData(c)
    \/ Dispatch(c) /\ lastCall'.outcome = "ok"
    \/ FullSyncFrom(c)
    \/ PullAnswered(c, Still, {"ok"}, {TRUE})

\* a production build started online: the online effect has called syncData
InitTriggered ==
    /\ rooms = SeedRooms
    /\ employees = SeedEmployees
    /\ accessRights = SeedAccessRights
    /\ roomKey = 2
    /\ employeeKey = 2
    /\ accessKey = 2
    /\ pendingChanges = <<>>
    /\ callOrder = <<>>
    /\ now = 1
    /\ quota = MaxOutbox
    /\ inflight = NoneInFlight
    /\ pendingChangesCount = 0
    /\ lastCall = NoCall
    /\ online = TRUE
    /\ useMockData = FALSE
    /\ isSyncing = FALSE
    /\ lastSyncTime = 0
    /\ pc = [c \in Callers |-> IF c = "online" THEN "triggered" ELSE "idle"]
    /\ queue = [c \in Callers |-> <<>>]

\* rooms are created through the hook; the only sync calls are the one of the
\* online effect and those that follow a mutation
NextTriggered ==
    \/ CreateRoomTriggered("mutation")
    \/ Cycle("online")
    \/ Cycle("mutation")

\* a syncData call that was started takes its next step
SpecTriggered ==
    /\ InitTriggered
    /\ [][NextTriggered]_vars
    /\ WF_vars(Cycle("online"))
    /\ WF_vars(Cycle("mutation"))

\* C31: on a network that stays reachable, with a gateway that accepts every
\* call, once the local mutations have stopped the outbox becomes empty and
\* stays empty without a sync call of the user, also when a change was
\* recorded while a cycle was in progress
C31_OutboxDrains == <>[](pendingChanges = <<>>)

\* ------------------------------------------------------------------ the pairs of a pending change
\* PendingChange.operation and PendingChange.entityType
Operations == {"create", "update", "delete", "grant", "revoke", "bulk"}
EntityTypes == {"room", "employee", "access"}

\* IndexedDBService.addPendingChange called with any change of the type
AddPendingChange ==
    \E operation \in Operations, entityType \in EntityTypes :
      \E env \in Envs(Still, Returned(addPendingChange(DBof(NoEnv), operation, entityType,
                                                       Data(0, 0, 0)), "id", "throw")) :
        \E out \in {Returned(addPendingChange(DBof(env), operation, entityType,
                                              Data(0, 0, 0)), "id", "throw")} :
            Commit(out, "addPendingChange", 0, 0, FALSE, FALSE)

\* changes of every pair are recorded, a caller drains the outbox
NextProcess ==
    \/ AddPendingChange
    \/ SyncToServer("user")
    \/ Dispatch("user")

SpecProcess == InitSeeded /\ [][NextProcess]_vars

\* C32: a turn of the drain calls the one gateway method of the pair
\* (operation, entityType) of its change; for a pair without a method it
\* calls none, nothing is thrown and the entry is discarded
C32_DispatchTable ==
    [][LET Documented ==
            [p \in Operations \X EntityTypes |->
                CASE p \in {<<"create", "room">>} -> "createRoom"
                  [] p \in {<<"update", "room">>} -> "updateRoom"
                  [] p \in {<<"delete", "room">>} -> "deleteRoom"
                  [] p \in {<<"create", "employee">>} -> "createEmployee"
                  [] p \in {<<"update", "employee">>} -> "updateEmployee"
                  [] p \in {<<"delete", "employee">>} -> "deleteEmployee"
                  [] p \in {<<"grant", "access">>} -> "grantAccess"
                  [] p \in {<<"revoke", "access">>} -> "revokeAccess"
                  [] p \in {<<"bulk", "room">>} -> "bulkImportRooms"
                  [] p \in {<<"bulk", "employee">>} -> "bulkImportEmployees"
                  [] p \in {<<"bulk", "access">>} -> "bulkImportAccessRights"
                  [] OTHER -> "none"]
       IN
       \A c \in Callers :
          (pc[c] \in {"drain", "fullDrain"} /\ lastCall'.op = "processChange"
              /\ queue'[c] = Tail(queue[c]))
          => LET change == Head(queue[c])
             IN  /\ lastCall'.method = Documented[<<change.operation, change.entityType>>]
                 /\ lastCall'.method = "none" =>
                        /\ lastCall'.discarded
                        /\ \A i \in DOMAIN pendingChanges' : pendingChanges'[i].id # change.id]_vars

C32_Witness ==
    /\ lastCall.op = "processChange"
    /\ lastCall.method = "none"
    /\ lastCall.discarded
    /\ pendingChanges = <<>>
    /\ pc["user"] = "idle"

\* ------------------------------------------------------------------ the outbox after a pull
\* a production build that stays online: rooms are created locally, a caller
\* pulls the records of the server and drains the outbox
NextPull ==
    \/ CreateRoom(Still)
    \/ SyncFromServer("user")
    \/ Pull("user")
    \/ SyncToServer("user")
    \/ Dispatch("user")

SpecPull == InitScenario /\ [][NextPull]_vars

\* the entries of the outbox after a step that were not in it before the step
Appended == SelectSeq(pendingChanges', LAMBDA x : \A i \in DOMAIN pendingChanges :
                                                      pendingChanges[i].id # x.id)

\* C33: a pull appends one bulk entry per entity type it imported and nothing
\* else, so the outbox grows by the number of imports, and a later drain sends
\* each of these entries to the bulk import of the gateway with the data that
\* was recorded
C33_PullFeedsOutbox ==
    [][/\ (lastCall'.op = "pull" /\ lastCall'.ret = "true") =>
              /\ Len(pendingChanges') = Len(pendingChanges) + Cardinality(lastCall'.imported)
              /\ Len(Appended) = Cardinality(lastCall'.imported)
              /\ \A i \in DOMAIN Appended : Appended[i].operation = "bulk"
              /\ {Appended[i].entityType : i \in DOMAIN Appended} =
                     {CASE store = "rooms" -> "room"
                        [] store = "employees" -> "employee"
                        [] store = "accessRights" -> "access" : store \in lastCall'.imported}
       /\ (pc["user"] = "drain" /\ lastCall'.op = "processChange"
              /\ Head(queue["user"]).operation = "bulk") =>
              LET change == Head(queue["user"])
              IN  /\ lastCall'.method =
                         (CASE change.entityType = "room" -> "bulkImportRooms"
                            [] change.entityType = "employee" -> "bulkImportEmployees"
                            [] change.entityType = "access" -> "bulkImportAccessRights")
                  /\ lastCall'.whole =>
                         lastCall'.sent[Len(lastCall'.sent)] =
                             [method |-> lastCall'.method, data |-> change.data]]_vars

\* a pull imported the three entity types and the drain that followed sent the
\* three bulk entries
C33_Witness ==
    /\ lastCall.op = "processChange"
    /\ lastCall.allOk
    /\ Len(lastCall.sent) = 3
    /\ [i \in 1 .. 3 |-> lastCall.sent[i].method] =
           <<"bulkImportRooms", "bulkImportEmployees", "bulkImportAccessRights">>
    /\ pendingChanges = <<>>
    /\ Cardinality(rooms) = 2 /\ Cardinality(employees) = 2 /\ Cardinality(accessRights) = 2

\* ------------------------------------------------------------------ the bulk imports
\* the batches of an import: up to two records of the store, with or without
\* a key of their own
Batches(store) ==
    LET records == CASE store = "rooms" -> [id : 0 .. MaxKey, number : Numbers, building : {1}]
                     [] store = "employees" ->
                            [id : {0, 1}, employeeId : Badges, accessRooms : {<<>>}]
                     [] store = "accessRights" -> [id : {0, 1}, employeeId : {1}, roomId : Keys]
    IN  UNION {[1 .. n -> records] : n \in 0 .. 2}

bulkImport(db, store, records) ==
    CASE store = "rooms" -> bulkImportRooms(db, records)
      [] store = "employees" -> bulkImportEmployees(db, records)
      [] store = "accessRights" -> bulkImportAccessRights(db, records)

\* DataProvider.bulkImport*: the same transaction, an error is caught and 0
\* is returned
providerBulkImport(db, store, records) ==
    LET out == bulkImport(db, store, records)
    IN  IF out.ret = "count" THEN out
        ELSE [db |-> out.db, ret |-> "0", count |-> 0]

\* a bulk import of the store (provider: through the DataProvider); its
\* record: the batch, what the call returned and the count it resolved with
BulkImport(O) ==
    \E provider \in BOOLEAN, store \in EntityStores :
      \E records \in Batches(store) :
        \E env \in Envs(O, bulkImport(DBof(NoEnv), store, records)) :
          \E out \in {IF provider THEN providerBulkImport(DBof(env), store, records)
                      ELSE bulkImport(DBof(env), store, records)} :
              /\ StoreOf(out.db)
              /\ lastCall' = [op |-> "bulkImport", provider |-> provider, store |-> store,
                              records |-> records, ret |-> out.ret, count |-> out.count]
              /\ UNCHANGED syncVars

\* imports into the seeded store, next to a delete that takes its employee
\* and the rows of the employee away
NextBulk ==
    \/ BulkImport(Still)
    \/ DeleteEmployee(Still)

SpecBulk == InitSeeded /\ [][NextBulk]_vars

\* C34: a bulk import with a record whose key or unique index value is in
\* the store or twice in the batch fails (the error reaches the caller), and
\* a failed import leaves the stores and the outbox as they were; a batch of
\* records without keys and without such a value succeeds, and an import that
\* resolves with a count has stored every record, appended exactly one bulk
\* entry and returns the size of the batch
C34_BulkAllOrNothing ==
    [][lastCall'.op = "bulkImport" =>
         LET store == lastCall'.store
             records == lastCall'.records
             before == CASE store = "rooms" -> rooms
                         [] store = "employees" -> employees
                         [] store = "accessRights" -> accessRights
             after == CASE store = "rooms" -> rooms'
                        [] store = "employees" -> employees'
                        [] store = "accessRights" -> accessRights'
             Same(a, b) == CASE store = "rooms" -> FALSE
                             [] store = "employees" -> a.employeeId = b.employeeId
                             [] store = "accessRights" ->
                                    a.employeeId = b.employeeId /\ a.roomId = b.roomId
             clash == \/ \E i \in DOMAIN records :
                            /\ records[i].id # 0
                            /\ records[i].id \in Ids(before)
                      \/ \E i, j \in DOMAIN records :
                            /\ i # j
                            /\ records[i].id # 0
                            /\ records[i].id = records[j].id
                      \/ \E i \in DOMAIN records, x \in before : Same(records[i], x)
                      \/ \E i, j \in DOMAIN records : i # j /\ Same(records[i], records[j])
             plain == \A i \in DOMAIN records : records[i].id = 0
             failed == lastCall'.ret = "throw"
         IN  /\ clash => failed
             /\ (plain /\ ~clash) => ~failed
             /\ failed => UNCHANGED <<rooms, employees, accessRights, roomKey, employeeKey,
                                      accessKey, pendingChanges, callOrder>>
             /\ lastCall'.ret = "count" =>
                   /\ ~clash
                   /\ lastCall'.count = Len(records)
                   /\ Cardinality(after) = Cardinality(before) + Len(records)
                   /\ Len(pendingChanges') = Len(pendingChanges) + 1
                   /\ Len(Appended) = 1
                   /\ Appended[1].operation = "bulk"
                   /\ Appended[1].entityType =
                          (CASE store = "rooms" -> "room"
                             [] store = "employees" -> "employee"
                             [] store = "accessRights" -> "access")]_vars

\* C35: an updateRoom, updateEmployee, deleteRoom, deleteEmployee,
\* grantAccess or revokeAccess call that returns false leaves the object
\* stores, their key generators and the outbox as they were before the call
C35_FailureLeavesNoTrace ==
    [][(/\ lastCall'.op \in {"updateRoom", "updateEmployee", "deleteRoom", "deleteEmployee",
                             "grantAccess", "revokeAccess"}
        /\ lastCall'.ret = "false")
       => UNCHANGED <<rooms, employees, accessRights, roomKey, employeeKey, accessKey,
                      pendingChanges, callOrder>>]_vars

\* ------------------------------------------------------------------ withTransaction
\* the callbacks passed to withTransaction: one or two creating calls of the
\* store, awaited one after the other
Callbacks ==
    LET calls == [op : {"createRoom"}, number : Numbers, building : Buildings]
                     \cup [op : {"createEmployee"}, employeeId : Badges]
    IN  UNION {[1 .. n -> calls] : n \in 1 .. 2}

\* the callback: each call is awaited, so the first that throws ends it
RECURSIVE callback(_, _)
callback(db, calls) ==
    IF calls = <<>>
    THEN [db |-> db, ret |-> "returned"]
    ELSE LET call == Head(calls)
             out == IF call.op = "createRoom"
                    THEN createRoom(db, [number |-> call.number, building |-> call.building])
                    ELSE createEmployee(db, [employeeId |-> call.employeeId,
                                             accessRooms |-> <<>>])
         IN  IF out.ret = "throw"
             THEN [db |-> out.db, ret |-> "throw"]
             ELSE callback(out.db, Tail(calls))

\* IndexedDBService.withTransaction: return await callback(), an error is
\* logged and thrown again
withTransaction(db, calls) ==
    LET out == callback(db, calls)
    IN  IF out.ret = "throw"
        THEN [db |-> out.db, ret |-> "throw"]
        ELSE [db |-> out.db, ret |-> "returned"]

\* a withTransaction call; its record: what it returned and the calls of its
\* callback
WithTransaction(O) ==
    \E calls \in Callbacks :
      \E env \in Envs(O, withTransaction(DBof(NoEnv), calls)) :
        \E out \in {withTransaction(DBof(env), calls)} :
            /\ StoreOf(out.db)
            /\ lastCall' = [op |-> "withTransaction", ret |-> out.ret, calls |-> calls]
            /\ UNCHANGED syncVars

\* composed calls on the seeded store, next to the deletes that make room
NextTransaction ==
    \/ WithTransaction(Still)
    \/ DeleteRoom(Still)
    \/ DeleteEmployee(Still)

SpecTransaction == InitScenario /\ [][NextTransaction]_vars

\* C36: a withTransaction call whose callback throws leaves the object
\* stores and the outbox as they were before the call, and one whose callback
\* returns has appended the pending change of each of its calls
C36_TransactionAtomic ==
    [][lastCall'.op = "withTransaction" =>
          /\ lastCall'.ret = "throw" =>
                 UNCHANGED <<rooms, employees, accessRights, pendingChanges, callOrder>>
          /\ lastCall'.ret = "returned" =>
                 Len(pendingChanges') = Len(pendingChanges) + Len(lastCall'.calls)]_vars

\* ------------------------------------------------------------------ DataProvider: the published count
\* a count that follows the additions without reading the store
publishedCountIncremented(db, count) == count + 1

\* DataProvider.addPendingChange after its db.add: db.getAll of the
\* pendingChanges store and setPendingChangesCount of its length; count is
\* the count published before
publishedCount(db, count) == Len(db.pendingChanges)

\* DataProvider.updateRoom up to its first await: db.put of the room, whose
\* transaction is complete when the call goes on
ProviderUpdateRoom(t) ==
    /\ inflight.tasks[t] = Idle
    /\ \E x \in rooms, building \in Buildings :
          /\ Written([DBof(NoEnv) EXCEPT
                          !.rooms = (@ \ {x}) \cup {[x EXCEPT !.building = building]}])
          /\ inflight' = [inflight EXCEPT
                              !.tasks[t] = [at |-> "add", op |-> "updateRoom", r |-> x.id]]
    /\ lastCall' = AwaitOf(t)
    /\ UNCHANGED syncVars

\* DataProvider.addPendingChange up to its second await: db.add of the entry;
\* an add that fails is caught by updateRoom, which returns false
ProviderAddPendingChange(t, O) ==
    /\ inflight.tasks[t].at = "add"
    /\ \E o \in O :
          LET call == inflight.tasks[t]
              out == Returned(addPendingChange(DBof(<<o>>), "update", "room",
                                               Data(call.r, 0, 0)),
                              "await", "false")
          IN  /\ Written(out.db)
              /\ inflight' = [inflight EXCEPT
                                  !.tasks[t] = IF out.ret = "false" THEN Idle
                                               ELSE [call EXCEPT !.at = "getAll"]]
              /\ lastCall' = IF out.ret = "false"
                             THEN ReturnOf(t, call.op, 0, call.r, "false")
                             ELSE AwaitOf(t)
    /\ UNCHANGED syncVars

\* the rest of DataProvider.addPendingChange and of updateRoom: the getAll
\* request reads the store, and the continuation of its success event
\* publishes the length before the event of any other request is delivered
ProviderPublish(t) ==
    /\ inflight.tasks[t].at = "getAll"
    /\ pendingChangesCount' = publishedCount(DBof(NoEnv), pendingChangesCount)
    /\ Stored(DBof(NoEnv))
    /\ inflight' = [inflight EXCEPT !.tasks[t] = Idle]
    /\ lastCall' = ReturnOf(t, inflight.tasks[t].op, 0, inflight.tasks[t].r, "true")
    /\ UNCHANGED syncVars

NextProvider ==
    \/ \E t \in Tasks : ProviderUpdateRoom(t)
    \/ \E t \in Tasks : ProviderAddPendingChange(t, Faulty)
    \/ \E t \in Tasks : ProviderPublish(t)
    \/ ProviderSyncData

SpecProvider == InitScenario /\ [][NextProvider]_vars

\* C37: whenever no operation of the DataProvider is in flight, the published
\* pendingChangesCount is the number of entries of the pendingChanges store,
\* however the local mutations and syncData interleave
C37_CountPublished ==
    AllIdle(inflight.tasks) => pendingChangesCount = Len(pendingChanges)

\* a mutation whose entry syncData cleared before the mutation read the store
\* has returned, and the count it published is that of the empty store
C37_Witness ==
    /\ AllIdle(inflight.tasks)
    /\ lastCall.op = "updateRoom"
    /\ lastCall.ret = "true"
    /\ pendingChanges = <<>>
    /\ pendingChangesCount = 0

\* ------------------------------------------------------------------ getAccessRights
\* DataProvider.getAccessRights: the same conditions; the pair is filtered
\* out of getAll, one id is looked up in its index
providerGetAccessRights(db, roomId, employeeId) ==
    IF Truthy(roomId) /\ Truthy(employeeId)
    THEN {right \in db.accessRights : right.roomId = roomId /\ right.employeeId = employeeId}
    ELSE IF Truthy(roomId)
    THEN {right \in db.accessRights : right.roomId = roomId}
    ELSE IF Truthy(employeeId)
    THEN {right \in db.accessRights : right.employeeId = employeeId}
    ELSE db.accessRights

\* the ids a caller can pass: none, or a number
PassedIds == {Undefined} \cup (0 .. MaxKey)

\* a call of getAccessRights, of the store or of the DataProvider; it reads
GetAccessRights ==
    /\ \E roomId \in PassedIds, employeeId \in PassedIds, provider \in BOOLEAN :
          lastCall' = [op |-> "getAccessRights", provider |-> provider,
                       roomId |-> roomId, employeeId |-> employeeId,
                       ret |-> IF provider
                               THEN providerGetAccessRights(DBof(NoEnv), roomId, employeeId)
                               ELSE getAccessRights(DBof(NoEnv), roomId, employeeId)]
    /\ UNCHANGED <<storeVars, syncVars>>

NextLookup == GrantAccess(Still) \/ RevokeAccess(Still) \/ GetAccessRights

SpecLookup == InitScenario /\ [][NextLookup]_vars

\* C38: getAccessRights(roomId, employeeId) returns exactly the rows that
\* match every id that was passed (the pair, one id, or none), for every id
\* value, 0 included
C38_RowsOfPassedIds ==
    [][lastCall'.op = "getAccessRights" =>
          lastCall'.ret =
              {a \in accessRights :
                  /\ lastCall'.roomId # Undefined => a.roomId = lastCall'.roomId
                  /\ lastCall'.employeeId # Undefined => a.employeeId = lastCall'.employeeId}]_vars

\* ------------------------------------------------------------------ lastSyncTime
\* room creations and updates at any time fill the outbox, the callers drain
\* it, the network comes and goes
NextStamp ==
    \/ CreateRoom(Oracle)
    \/ UpdateRoom(Oracle)
    \/ \E c \in Callers : SyncToServer(c)
    \/ \E c \in Callers : Dispatch(c)
    \/ NetworkChange

SpecStamp == InitSync /\ [][NextStamp]_vars

\* C39: syncToServer sets lastSyncTime to the time at which it has drained a
\* non-empty outbox, whether or not an entry was replayed, and leaves it as it
\* was when the outbox is empty, the network is unreachable or a cycle is active
C39_LastSyncTimeFrame ==
    [][/\ lastCall'.op = "processChange" /\ lastCall'.ret = "true" =>
              lastSyncTime' = now'
       /\ lastCall'.op = "syncToServer" /\ lastCall'.ret \in {"true", "false"} =>
              lastSyncTime' = lastSyncTime]_vars

\* a drain of one entry has ended, the entry was not replayed, and the time of
\* the last sync is the time of that drain, later than the start
C39_Witness ==
    /\ lastCall.op = "processChange"
    /\ lastCall.ret = "true"
    /\ lastCall.outcome \in Failures
    /\ Len(lastCall.sent) = 1
    /\ pendingChanges # <<>>
    /\ now > 1
    /\ lastSyncTime = now

====
